---- MODULE Spec2Model ----
(***************************************************************************)
(* Kids Ledger: the persistence and ordering core.                         *)
(*                                                                         *)
(* The store is the D1 (SQLite) database behind worker/db/index.ts: three  *)
(* tables (ledgers, kids, accounts) whose child rows carry a foreign key   *)
(* to their parent with ON DELETE CASCADE.  Every method of class DB is a  *)
(* sequence of SQL statements; one statement is one atomic round trip.     *)
(*                                                                         *)
(* Sort keys are JavaScript numbers.  They are modelled on a binary grid   *)
(* with FracBits fractional bits (a key k stands for k / 2^FracBits) and   *)
(* round-half-to-even, which is what IEEE-754 binary64 does in [1, 2) with *)
(* 52 fractional bits.                                                     *)
(***************************************************************************)
EXTENDS Integers, Sequences, FiniteSets, TLC

VARIABLES
    ledgers,        \* table ledgers:  id -> row
    kids,           \* table kids:     id -> row
    accounts,       \* table accounts: id -> row
    usedLedgerIds,  \* ids crypto.randomUUID() has already produced
    kidSeq,         \* sqlite_sequence of kids (AUTOINCREMENT)
    accountSeq,     \* sqlite_sequence of accounts (AUTOINCREMENT)
    schema,         \* the tables that exist and the rows of schema_versions
    now,            \* CURRENT_TIMESTAMP
    call,           \* frame of the last call that ran alone, at its return
    procs,          \* frames of the requests in flight (interleaved runs)
    hist            \* history: what the balance updates were asked to do

vars == <<ledgers, kids, accounts, usedLedgerIds, kidSeq, accountSeq, schema,
          now, call, procs, hist>>

store == <<ledgers, kids, accounts, usedLedgerIds, kidSeq, accountSeq>>

----------------------------------------------------------------------------
(* Bounds of the model *)

FracBits == 1
MaxKey == 2
MaxKidId == 1
MaxAccountId == 1
MaxTime == 1
MaxBalance == 30
MaxSeq == 3
MaxIssued == 2

(* One whole unit of a sort key (the number 1) on the grid. *)
Unit == 2 ^ FracBits

NULL == -1

LedgerIds == {"L1", "L2"}
Amounts == {5, 10, 20}
Operations == {"add", "remove"}

Procs == {"p1", "p2"}

(* The migrations array: each migration's version, name and the tables its *)
(* up() creates with CREATE TABLE IF NOT EXISTS.                            *)
Migrations ==
    << [version |-> 1, name |-> "initial_schema",
        creates |-> {"schema_versions"}],
       [version |-> 2, name |-> "kids_expenses_schema",
        creates |-> {"ledgers", "kids", "accounts"}] >>

(* A database no migrate() has touched, and one every migration has been *)
(* applied to and recorded in (what DB.getInstance hands to a handler).   *)
Fresh == [tables |-> {}, versions |-> <<>>]

Migrated ==
    [tables |-> UNION {Migrations[i].creates : i \in DOMAIN Migrations},
     versions |-> [i \in DOMAIN Migrations |-> Migrations[i].version]]

----------------------------------------------------------------------------
(* JavaScript number arithmetic on sort keys *)

HalfEvenBad(n) == n
(* n / 2 rounded to the grid, ties to even *)
HalfEven(n) ==
    IF n % 2 = 0 THEN n \div 2
    ELSE LET f == n \div 2 IN IF f % 2 = 0 THEN f ELSE f + 1

KeyBeforeFirstBad(afterKey) == afterKey
(* newSortOrder = afterKid.sortOrder / 2 *)
KeyBeforeFirst(afterKey) == HalfEven(afterKey)

KeyAfterLastBad(beforeKey) == beforeKey
(* newSortOrder = beforeKid.sortOrder + 1 *)
KeyAfterLast(beforeKey) == beforeKey + Unit

KeyBetweenBad(beforeKey, afterKey) == afterKey
(* newSortOrder = (beforeKid.sortOrder + afterKid.sortOrder) / 2 *)
KeyBetween(beforeKey, afterKey) == HalfEven(beforeKey + afterKey)

(* newSortOrder = 0 *)
KeyFront == 0

(* JavaScript property read: a property the object lacks is undefined *)
Prop(obj, name) == IF name \in DOMAIN obj THEN obj[name] ELSE NULL

(* a ?? b *)
Coalesce(a, b) == IF a = NULL THEN b ELSE a

Max(S) == CHOOSE m \in S : \A x \in S : x <= m

(* SELECT MAX(sort_order) as max_order FROM t WHERE parent = ? : one row, *)
(* whose only column is named max_order                                   *)
SelectMaxOrder(keys) ==
    [max_order |-> IF keys = {} THEN NULL ELSE Max(keys)]

(* sortOrder = (maxOrder?.maxOrder ?? 0) + 1 *)
NextSortOrder(maxOrder) == Coalesce(Prop(maxOrder, "maxOrder"), 0) + Unit

NewBalanceBad(balance, amount, operation) ==
    IF operation = "add" THEN balance + amount
    ELSE IF balance - amount < 0 THEN 0 ELSE balance - amount
(* operation === 'add' ? balance + amount : balance - amount *)
NewBalance(balance, amount, operation) ==
    IF operation = "add" THEN balance + amount ELSE balance - amount

----------------------------------------------------------------------------
(* SQL statements, as functions of the tables *)

Restrict(f, S) == [x \in S |-> f[x]]

KidsOf(ks, ledgerId) == {k \in DOMAIN ks : ks[k].ledgerId = ledgerId}
AccountsOf(as, kidId) == {a \in DOMAIN as : as[a].kidId = kidId}

KidKeys(ks, ledgerId) == {ks[k].sortOrder : k \in KidsOf(ks, ledgerId)}
AccountKeys(as, kidId) == {as[a].sortOrder : a \in AccountsOf(as, kidId)}

(* INSERT INTO kids (ledger_id, name, emoji, sort_order) VALUES (?, ?, ?, ?) *)
InsertKid(ks, id, ledgerId, name, emoji, sortOrder, t) ==
    [k \in DOMAIN ks \cup {id} |->
        IF k = id
        THEN [ledgerId |-> ledgerId, name |-> name, emoji |-> emoji,
              sortOrder |-> sortOrder, createdAt |-> t, updatedAt |-> t]
        ELSE ks[k]]

InsertAccountBad(as, id, kidId, name, balance, sortOrder, t) ==
    [a \in DOMAIN as \cup {id} |->
        IF a = id
        THEN [kidId |-> kidId, name |-> name, balance |-> 0,
              sortOrder |-> sortOrder, createdAt |-> t, updatedAt |-> t]
        ELSE as[a]]
(* INSERT INTO accounts (kid_id, name, balance, sort_order) VALUES (?, ?, ?, ?) *)
InsertAccount(as, id, kidId, name, balance, sortOrder, t) ==
    [a \in DOMAIN as \cup {id} |->
        IF a = id
        THEN [kidId |-> kidId, name |-> name, balance |-> balance,
              sortOrder |-> sortOrder, createdAt |-> t, updatedAt |-> t]
        ELSE as[a]]

UpdateSortOrderBad(rows, id, newSortOrder, t) ==
    [r \in DOMAIN rows |-> [rows[r] EXCEPT !.sortOrder = newSortOrder, !.updatedAt = t]]
(* UPDATE t SET sort_order = ?, updated_at = CURRENT_TIMESTAMP WHERE id = ? *)
UpdateSortOrder(rows, id, newSortOrder, t) ==
    [r \in DOMAIN rows |->
        IF r = id
        THEN [rows[r] EXCEPT !.sortOrder = newSortOrder, !.updatedAt = t]
        ELSE rows[r]]

UpdateBalanceStmtBad(as, id, balance, t) ==
    [a \in DOMAIN as \cup {id} |->
        IF a = id
        THEN [kidId |-> NULL, name |-> "", balance |-> balance,
              sortOrder |-> NULL, createdAt |-> t, updatedAt |-> t]
        ELSE as[a]]
(* UPDATE accounts SET balance = ?, updated_at = CURRENT_TIMESTAMP WHERE id = ? *)
UpdateBalanceStmt(as, id, balance, t) ==
    [a \in DOMAIN as |->
        IF a = id
        THEN [as[a] EXCEPT !.balance = balance, !.updatedAt = t]
        ELSE as[a]]

ChangedBad(rows, id) == TRUE
(* result.success && result.meta.changes > 0 of DELETE FROM t WHERE id = ? *)
Changed(rows, id) == id \in DOMAIN rows

CascadeKidsBad(ks, ls) == Restrict(ks, {})
(* kids left by a delete from ledgers: FOREIGN KEY (ledger_id) REFERENCES *)
(* ledgers(id) ON DELETE CASCADE                                          *)
CascadeKids(ks, ls) == Restrict(ks, {k \in DOMAIN ks : ks[k].ledgerId \in DOMAIN ls})

(* accounts left by a delete from kids: FOREIGN KEY (kid_id) REFERENCES *)
(* kids(id) ON DELETE CASCADE                                           *)
CascadeAccountsBad(as, ks) == as
CascadeAccounts(as, ks) == Restrict(as, {a \in DOMAIN as : as[a].kidId \in DOMAIN ks})

----------------------------------------------------------------------------
(* ORDER BY sort_order ASC: rows with equal keys come in an order SQL does *)
(* not specify                                                             *)

RECURSIVE Perms(_)
Perms(S) ==
    IF S = {} THEN {<<>>}
    ELSE UNION {{<<x>> \o p : p \in Perms(S \ {x})} : x \in S}

OrderedBySortOrder(rows, ids) ==
    {s \in Perms(ids) :
        \A i \in 1..Len(s) : \A j \in 1..Len(s) :
            i < j => rows[s[i]].sortOrder <= rows[s[j]].sortOrder}

(* the results getKidsByLedger(ledgerId) can return *)
GetKidsByLedger(ks, ledgerId) == OrderedBySortOrder(ks, KidsOf(ks, ledgerId))

GetAccountsByKidBad(as, kidId) == OrderedBySortOrder(as, DOMAIN as)
(* the results getAccountsByKid(kidId) can return *)
GetAccountsByKid(as, kidId) == OrderedBySortOrder(as, AccountsOf(as, kidId))

Index(s, x) == CHOOSE i \in 1..Len(s) : s[i] = x

----------------------------------------------------------------------------
(* Frames: the arguments, locals and outcome of one call *)

Frame(op) ==
    [op |-> op, pc |-> "done", lid |-> "", kidId |-> NULL, id |-> NULL,
     beforeId |-> NULL,
     afterId |-> NULL, amount |-> 0, operation |-> "", data |-> <<>>,
     found |-> FALSE, balance |-> 0, beforeKey |-> NULL, afterKey |-> NULL,
     newSortOrder |-> NULL, result |-> "none", view |-> <<>>, row |-> <<>>,
     todo |-> {}, seen |-> {}, currentVersion |-> 0, index |-> 0,
     applied |-> <<>>]

Idle == Frame("none")

FoundBad(rows, id) == TRUE
(* getKid(id) / getAccount(id) is a row and not null: SELECT * FROM t WHERE *)
(* id = ?, first()                                                         *)
Found(rows, id) == id \in DOMAIN rows

TargetFoundBad(rows, id) == TRUE
(* const kid = await this.getKid(id); if (!kid) return null: false when the *)
(* target of a reorder names no row                                         *)
TargetFound(rows, id) == id \in DOMAIN rows

(* reorderKidBetween / reorderAccountBetween up to the call of reorderKid / *)
(* reorderAccount, on one snapshot of the table                            *)
ReorderBetween(op, rows, id, beforeId, afterId) ==
    LET found     == TargetFound(rows, id)
        beforeKey == IF found /\ beforeId # NULL /\ beforeId \in DOMAIN rows
                     THEN rows[beforeId].sortOrder ELSE NULL
        afterKey  == IF found /\ afterId # NULL /\ afterId \in DOMAIN rows
                        /\ (beforeId = NULL \/ beforeKey # NULL)
                     THEN rows[afterId].sortOrder ELSE NULL
        newSortOrder ==
            IF ~found THEN NULL
            ELSE IF beforeId = NULL /\ afterId = NULL THEN KeyFront
            ELSE IF beforeId = NULL
                 THEN IF afterKey = NULL THEN NULL ELSE KeyBeforeFirst(afterKey)
            ELSE IF afterId = NULL
                 THEN IF beforeKey = NULL THEN NULL ELSE KeyAfterLast(beforeKey)
            ELSE IF beforeKey = NULL \/ afterKey = NULL THEN NULL
                 ELSE KeyBetween(beforeKey, afterKey)
    IN  [Frame(op) EXCEPT !.id = id, !.beforeId = beforeId, !.afterId = afterId,
            !.found = found, !.beforeKey = beforeKey, !.afterKey = afterKey,
            !.newSortOrder = newSortOrder,
            !.result = IF newSortOrder = NULL THEN "null" ELSE "row"]

----------------------------------------------------------------------------
(* The methods of DB, each run alone from call to return *)

Tick ==
    /\ now < MaxTime
    /\ now' = now + 1
    /\ UNCHANGED <<store, schema, call, procs, hist>>

(* INSERT INTO ledgers (id, name) VALUES (?, ?), id = crypto.randomUUID() *)
InsertLedger(id, name) ==
    /\ id \notin usedLedgerIds
    /\ ledgers' = [l \in DOMAIN ledgers \cup {id} |->
                      IF l = id
                      THEN [name |-> name, createdAt |-> now, updatedAt |-> now]
                      ELSE ledgers[l]]
    /\ usedLedgerIds' = usedLedgerIds \cup {id}
    /\ UNCHANGED <<kids, accounts, kidSeq, accountSeq, now, schema, hist>>

CreateLedger(name) ==
    \E id \in LedgerIds :
        /\ InsertLedger(id, name)
        /\ call' = [Frame("createLedger") EXCEPT !.lid = id, !.result = "row"]
        /\ UNCHANGED procs

StampBad(row, t) == row
(* SET ..., updated_at = CURRENT_TIMESTAMP *)
Stamp(row, t) == [row EXCEPT !.updatedAt = t]

NoUpdatesBad(data) == FALSE
(* updates.length === 0: no field of data is defined *)
NoUpdates(data) == DOMAIN data = {}

(* the row a method returns, or nothing for null *)
RowReturned(rows, id) == IF id \in DOMAIN rows THEN <<rows[id]>> ELSE <<>>

(* updateLedger: UPDATE ledgers SET name = ?, updated_at = CURRENT_TIMESTAMP *)
(* WHERE id = ? RETURNING *, or getLedger(id) when data has no field         *)
UpdateLedgers(id, data) ==
    LET found == id \in DOMAIN ledgers
        named == IF "name" \in DOMAIN data /\ found
                 THEN [ledgers EXCEPT ![id].name = data.name] ELSE ledgers
    IN  /\ ledgers' = IF ~NoUpdates(data) /\ found
                      THEN [named EXCEPT ![id] = Stamp(@, now)] ELSE ledgers
        /\ UNCHANGED <<kids, accounts, usedLedgerIds, kidSeq, accountSeq, now, schema, hist>>

UpdateLedger(id, data) ==
    /\ UpdateLedgers(id, data)
    /\ call' = [Frame("updateLedger") EXCEPT !.lid = id, !.data = data,
                   !.found = id \in DOMAIN ledgers,
                   !.row = RowReturned(ledgers', id),
                   !.result = IF id \in DOMAIN ledgers THEN "row" ELSE "null"]
    /\ UNCHANGED procs

(* DELETE FROM ledgers WHERE id = ? *)
DeleteFromLedgers(id) ==
    LET ls == Restrict(ledgers, DOMAIN ledgers \ {id})
        ks == CascadeKids(kids, ls)
        as == CascadeAccounts(accounts, ks)
    IN  /\ ledgers' = ls
        /\ kids' = ks
        /\ accounts' = as
        /\ hist' = Restrict(hist, DOMAIN as)
        /\ UNCHANGED <<usedLedgerIds, kidSeq, accountSeq, now, schema>>

DeleteLedger(id) ==
    /\ DeleteFromLedgers(id)
    /\ call' = [Frame("deleteLedger") EXCEPT !.lid = id,
                   !.found = id \in DOMAIN ledgers,
                   !.result = IF Changed(ledgers, id) THEN "true" ELSE "false"]
    /\ UNCHANGED procs

ReferencesBad(parents, id) == TRUE
(* FOREIGN KEY (ledger_id) REFERENCES ledgers(id), FOREIGN KEY (kid_id)   *)
(* REFERENCES kids(id): an INSERT whose parent id names no row fails      *)
References(parents, id) == id \in DOMAIN parents

CreateKid(ledgerId, name, emoji) ==
    LET maxOrder  == SelectMaxOrder(KidKeys(kids, ledgerId))
        sortOrder == NextSortOrder(maxOrder)
        ok        == References(ledgers, ledgerId)
        id        == kidSeq + 1
    IN  /\ ok => kidSeq < MaxSeq
        /\ kids' = IF ok THEN InsertKid(kids, id, ledgerId, name, emoji, sortOrder, now)
                   ELSE kids
        /\ kidSeq' = IF ok THEN id ELSE kidSeq
        /\ call' = [Frame("createKid") EXCEPT !.lid = ledgerId,
                       !.data = [name |-> name, emoji |-> emoji],
                       !.id = IF ok THEN id ELSE NULL,
                       !.newSortOrder = sortOrder,
                       !.result = IF ok THEN "row" ELSE "throw"]
        /\ UNCHANGED <<ledgers, accounts, usedLedgerIds, accountSeq, now, schema, procs, hist>>

(* updateKid: UPDATE kids SET <fields of data>, updated_at = CURRENT_TIMESTAMP *)
(* WHERE id = ?, or getKid(id) when data has no field                         *)
UpdateKids(id, data) ==
    LET found == id \in DOMAIN kids
        named == IF "name" \in DOMAIN data /\ found
                 THEN [kids EXCEPT ![id].name = data.name] ELSE kids
        emojd == IF "emoji" \in DOMAIN data /\ found
                 THEN [named EXCEPT ![id].emoji = data.emoji] ELSE named
    IN  /\ kids' = IF ~NoUpdates(data) /\ found
                   THEN [emojd EXCEPT ![id] = Stamp(@, now)] ELSE kids
        /\ UNCHANGED <<ledgers, accounts, usedLedgerIds, kidSeq, accountSeq, now, schema, hist>>

UpdateKid(id, data) ==
    /\ UpdateKids(id, data)
    /\ call' = [Frame("updateKid") EXCEPT !.id = id, !.data = data,
                   !.found = id \in DOMAIN kids,
                   !.row = RowReturned(kids', id),
                   !.result = IF id \in DOMAIN kids THEN "row" ELSE "null"]
    /\ UNCHANGED procs

(* DELETE FROM kids WHERE id = ? *)
DeleteFromKids(id) ==
    LET ks == Restrict(kids, DOMAIN kids \ {id})
        as == CascadeAccounts(accounts, ks)
    IN  /\ kids' = ks
        /\ accounts' = as
        /\ hist' = Restrict(hist, DOMAIN as)
        /\ UNCHANGED <<ledgers, usedLedgerIds, kidSeq, accountSeq, now, schema>>

DeleteKid(id) ==
    /\ DeleteFromKids(id)
    /\ call' = [Frame("deleteKid") EXCEPT !.id = id,
                   !.found = id \in DOMAIN kids,
                   !.result = IF Changed(kids, id) THEN "true" ELSE "false"]
    /\ UNCHANGED procs

ReorderKidBetween(id, beforeId, afterId) ==
    LET f == ReorderBetween("reorderKidBetween", kids, id, beforeId, afterId)
    IN  /\ f.newSortOrder <= MaxKey * Unit
        /\ kids' = IF f.newSortOrder # NULL
                   THEN UpdateSortOrder(kids, id, f.newSortOrder, now) ELSE kids
        /\ call' = f
        /\ UNCHANGED <<ledgers, accounts, usedLedgerIds, kidSeq, accountSeq, now, schema, procs, hist>>

CreateAccount(kidId, name, balance) ==
    LET maxOrder  == SelectMaxOrder(AccountKeys(accounts, kidId))
        sortOrder == NextSortOrder(maxOrder)
        ok        == References(kids, kidId)
        id        == accountSeq + 1
    IN  /\ ok => accountSeq < MaxSeq
        /\ accounts' = IF ok
                       THEN InsertAccount(accounts, id, kidId, name, balance, sortOrder, now)
                       ELSE accounts
        /\ accountSeq' = IF ok THEN id ELSE accountSeq
        /\ hist' = IF ok
                   THEN [a \in DOMAIN hist \cup {id} |->
                            IF a = id THEN [base |-> balance, net |-> 0] ELSE hist[a]]
                   ELSE hist
        /\ call' = [Frame("createAccount") EXCEPT !.kidId = kidId,
                       !.id = IF ok THEN id ELSE NULL, !.data = [name |-> name],
                       !.balance = balance, !.newSortOrder = sortOrder,
                       !.result = IF ok THEN "row" ELSE "throw"]
        /\ UNCHANGED <<ledgers, kids, usedLedgerIds, kidSeq, now, schema, procs>>

(* getLedger: SELECT * FROM ledgers WHERE id = ?, the row or null *)
GetLedger(id) ==
    /\ call' = [Frame("getLedger") EXCEPT !.lid = id,
                   !.found = Found(ledgers, id),
                   !.row = RowReturned(ledgers, id),
                   !.result = IF Found(ledgers, id) THEN "row" ELSE "null"]
    /\ UNCHANGED <<store, now, schema, procs, hist>>

(* getKid: SELECT * FROM kids WHERE id = ?, the row or null *)
GetKid(id) ==
    /\ call' = [Frame("getKid") EXCEPT !.id = id,
                   !.found = Found(kids, id),
                   !.row = RowReturned(kids, id),
                   !.result = IF Found(kids, id) THEN "row" ELSE "null"]
    /\ UNCHANGED <<store, now, schema, procs, hist>>

(* getAccount: SELECT * FROM accounts WHERE id = ?, the row or null *)
GetAccount(id) ==
    /\ call' = [Frame("getAccount") EXCEPT !.id = id,
                   !.found = Found(accounts, id),
                   !.row = RowReturned(accounts, id),
                   !.result = IF Found(accounts, id) THEN "row" ELSE "null"]
    /\ UNCHANGED <<store, now, schema, procs, hist>>

(* updateAccount: UPDATE accounts SET <fields of data>, updated_at =   *)
(* CURRENT_TIMESTAMP WHERE id = ?, or getAccount(id) when data has no *)
(* field                                                              *)
UpdateAccounts(id, data) ==
    LET found == id \in DOMAIN accounts
        named == IF "name" \in DOMAIN data /\ found
                 THEN [accounts EXCEPT ![id].name = data.name] ELSE accounts
        bald  == IF "balance" \in DOMAIN data /\ found
                 THEN [named EXCEPT ![id].balance = data.balance] ELSE named
    IN  /\ accounts' = IF ~NoUpdates(data) /\ found
                       THEN [bald EXCEPT ![id] = Stamp(@, now)] ELSE accounts
        /\ hist' = IF "balance" \in DOMAIN data /\ found
                   THEN [hist EXCEPT ![id] = [base |-> data.balance, net |-> 0]]
                   ELSE hist
        /\ UNCHANGED <<ledgers, kids, usedLedgerIds, kidSeq, accountSeq, now, schema>>

UpdateAccount(id, data) ==
    /\ UpdateAccounts(id, data)
    /\ call' = [Frame("updateAccount") EXCEPT !.id = id, !.data = data,
                   !.found = id \in DOMAIN accounts,
                   !.row = RowReturned(accounts', id),
                   !.result = IF id \in DOMAIN accounts THEN "row" ELSE "null"]
    /\ UNCHANGED procs

(* DELETE FROM accounts WHERE id = ? *)
DeleteFromAccounts(id) ==
    LET as == Restrict(accounts, DOMAIN accounts \ {id})
    IN  /\ accounts' = as
        /\ hist' = Restrict(hist, DOMAIN as)
        /\ UNCHANGED <<ledgers, kids, usedLedgerIds, kidSeq, accountSeq, now, schema>>

DeleteAccount(id) ==
    /\ DeleteFromAccounts(id)
    /\ call' = [Frame("deleteAccount") EXCEPT !.id = id,
                   !.found = id \in DOMAIN accounts,
                   !.result = IF Changed(accounts, id) THEN "true" ELSE "false"]
    /\ UNCHANGED procs

ReorderAccountBetween(id, beforeId, afterId) ==
    LET f == ReorderBetween("reorderAccountBetween", accounts, id, beforeId, afterId)
    IN  /\ f.newSortOrder <= MaxKey * Unit
        /\ accounts' = IF f.newSortOrder # NULL
                       THEN UpdateSortOrder(accounts, id, f.newSortOrder, now)
                       ELSE accounts
        /\ call' = f
        /\ UNCHANGED <<ledgers, kids, usedLedgerIds, kidSeq, accountSeq, now, schema, procs, hist>>

(* the views getFullLedger(ledgerId) can return on one snapshot *)
FullLedgerViews(ls, ks, as, ledgerId) ==
    LET sibs  == KidsOf(ks, ledgerId)
        lists == UNION {GetAccountsByKid(as, k) : k \in sibs}
        byKid == {f \in [sibs -> lists] : \A k \in sibs : f[k] \in GetAccountsByKid(as, k)}
    IN  {[i \in 1..Len(s) |->
            [id |-> s[i], row |-> ks[s[i]],
             accounts |-> [j \in 1..Len(f[s[i]]) |->
                              [id |-> f[s[i]][j], row |-> as[f[s[i]][j]]]]]] :
            s \in GetKidsByLedger(ks, ledgerId), f \in byKid}

GetFullLedger(ledgerId) ==
    /\ IF Found(ledgers, ledgerId)
       THEN \E v \in FullLedgerViews(ledgers, kids, accounts, ledgerId) :
                call' = [Frame("getFullLedger") EXCEPT !.lid = ledgerId,
                            !.found = TRUE, !.result = "view", !.view = v]
       ELSE call' = [Frame("getFullLedger") EXCEPT !.lid = ledgerId, !.result = "null"]
    /\ UNCHANGED <<store, now, schema, procs, hist>>

(* the 'update-balance' intent of the route action, after validation *)
UpdateBalance(id, amount, operation) ==
    LET found      == Found(accounts, id)
        balance    == IF id \in DOMAIN accounts THEN accounts[id].balance ELSE 0
        newBalance == NewBalance(balance, amount, operation)
        delta      == IF operation = "add" THEN amount ELSE 0 - amount
    IN  /\ found => (newBalance <= MaxBalance /\ newBalance >= 0 - MaxBalance)
        /\ accounts' = IF found THEN UpdateBalanceStmt(accounts, id, newBalance, now)
                       ELSE accounts
        /\ hist' = IF found /\ id \in DOMAIN hist
                   THEN [hist EXCEPT ![id].net = @ + delta] ELSE hist
        /\ call' = [Frame("update-balance") EXCEPT !.id = id, !.amount = amount,
                       !.operation = operation, !.found = found, !.balance = balance,
                       !.result = IF found THEN "success" ELSE "ACCOUNT_NOT_FOUND"]
        /\ UNCHANGED <<ledgers, kids, usedLedgerIds, kidSeq, accountSeq, now, schema, procs>>

----------------------------------------------------------------------------
(* The caller takes the result; the frame is gone *)

Return ==
    /\ call # Idle
    /\ call' = Idle
    /\ UNCHANGED <<store, now, schema, procs, hist>>

----------------------------------------------------------------------------
(* Stores that a run of creates leaves behind: the n-th row is inserted by *)
(* createKid / createAccount into the table the first n - 1 creates left   *)

RECURSIVE KidsCreated(_, _)
KidsCreated(n, ledgerOf) ==
    IF n = 0 THEN <<>>
    ELSE LET ks == KidsCreated(n - 1, ledgerOf)
         IN  InsertKid(ks, n, ledgerOf[n], "n1", "e1",
                 NextSortOrder(SelectMaxOrder(KidKeys(ks, ledgerOf[n]))), 0)

RECURSIVE AccountsCreated(_, _, _)
AccountsCreated(n, kidOf, balance) ==
    IF n = 0 THEN <<>>
    ELSE LET as == AccountsCreated(n - 1, kidOf, balance)
         IN  InsertAccount(as, n, kidOf[n], "n1", balance,
                 NextSortOrder(SelectMaxOrder(AccountKeys(as, kidOf[n]))), 0)

LedgersCreated(ids) ==
    [l \in ids |-> [name |-> "n1", createdAt |-> 0, updatedAt |-> 0]]

NoHistory(as) == [a \in DOMAIN as |-> [base |-> as[a].balance, net |-> 0]]

----------------------------------------------------------------------------
(* SpecReorder: reorders and full reads, one call at a time.  A run        *)
(* reorders the kids of a store without accounts (three kids of one        *)
(* ledger, or two of one ledger and one of the other), or the accounts of  *)
(* a store with two kids (three accounts of one kid, or two of one kid and *)
(* one of the other); a kid reorder reads and writes no account, and an    *)
(* account reorder no kid.                                                 *)

InitReorder ==
    /\ ledgers = LedgersCreated({"L1", "L2"})
    /\ usedLedgerIds = {"L1", "L2"}
    /\ \/ /\ \E third \in {"L1", "L2"} :
                 kids = KidsCreated(3, <<"L1", "L1", third>>)
          /\ kidSeq = 3
          /\ accounts = <<>>
          /\ accountSeq = 0
       \/ /\ kids = KidsCreated(2, <<"L1", "L1">>)
          /\ kidSeq = 2
          /\ \E third \in {1, 2} :
                 accounts = AccountsCreated(3, <<1, 1, third>>, 0)
          /\ accountSeq = 3
    /\ hist = NoHistory(accounts)
    /\ now = 0
    /\ schema = Migrated
    /\ call = Idle
    /\ procs = [p \in Procs |-> Idle]

KidIdArgs == 1..(kidSeq + 1)
AccountIdArgs == 1..(accountSeq + 1)

NextReorder ==
    \/ /\ call = Idle
       /\ accounts = <<>>
       /\ \E k \in KidIdArgs, b \in KidIdArgs \cup {NULL}, a \in KidIdArgs \cup {NULL} :
              ReorderKidBetween(k, b, a)
    \/ /\ call = Idle
       /\ accounts # <<>>
       /\ \E k \in AccountIdArgs, b \in AccountIdArgs \cup {NULL},
                a \in AccountIdArgs \cup {NULL} :
              ReorderAccountBetween(k, b, a)
    \/ /\ call = Idle
       /\ \E l \in LedgerIds : GetFullLedger(l)
    \/ Return

SpecReorder == InitReorder /\ [][NextReorder]_vars

----------------------------------------------------------------------------
(* What the frame of a reorder says about the store it returned to *)

IsKidReorder == call.op = "reorderKidBetween"
IsReorder == call.op \in {"reorderKidBetween", "reorderAccountBetween"}
ReorderDone == IsReorder /\ call.result = "row"

Table == IF IsKidReorder THEN kids ELSE accounts

SameParent(x, y) ==
    IF IsKidReorder THEN kids[x].ledgerId = kids[y].ledgerId
    ELSE accounts[x].kidId = accounts[y].kidId

(* the siblings of row x, x among them *)
Siblings(x) == {y \in DOMAIN Table : SameParent(x, y)}

(* the lists a read of x's siblings can return *)
SiblingReads(x) ==
    IF IsKidReorder THEN GetKidsByLedger(kids, kids[x].ledgerId)
    ELSE GetAccountsByKid(accounts, accounts[x].kidId)

Before(s, x, y) == Index(s, x) < Index(s, y)

(* id n names a row that is a sibling of the target *)
Resolves(n) == n \in DOMAIN Table /\ SameParent(call.id, n)

BetweenCase ==
    /\ ReorderDone
    /\ call.beforeId # NULL /\ call.afterId # NULL
    /\ Cardinality({call.id, call.beforeId, call.afterId}) = 3
    /\ Resolves(call.beforeId) /\ Resolves(call.afterId)
    /\ call.beforeKey < call.afterKey

----------------------------------------------------------------------------
(* C3, as stated: X reordered between siblings A and B with keys a < b gets *)
(* a key strictly between a and b, and every read lists A, X, B in that     *)
(* order.                                                                   *)
C3_MidpointStrict ==
    BetweenCase =>
        /\ call.beforeKey < Table[call.id].sortOrder
        /\ Table[call.id].sortOrder < call.afterKey
        /\ \A s \in SiblingReads(call.id) :
               Before(s, call.beforeId, call.id) /\ Before(s, call.id, call.afterId)

(* C3, amended: X reordered between siblings A and B with keys a < b gets *)
(* the midpoint of a and b rounded to a representable number, which lies  *)
(* in [a, b]; when some representable number lies strictly between a and  *)
(* b the new key does too, and every read lists A, X, B in that order.    *)
C3_Midpoint ==
    BetweenCase =>
        /\ call.beforeKey <= Table[call.id].sortOrder
        /\ Table[call.id].sortOrder <= call.afterKey
        /\ call.afterKey - call.beforeKey > 1 =>
               /\ call.beforeKey < Table[call.id].sortOrder
               /\ Table[call.id].sortOrder < call.afterKey
               /\ \A s \in SiblingReads(call.id) :
                      Before(s, call.beforeId, call.id)
                          /\ Before(s, call.id, call.afterId)

C3_Witness ==
    /\ BetweenCase
    /\ call.afterKey - call.beforeKey > 1
    /\ call.beforeKey < Table[call.id].sortOrder
    /\ Table[call.id].sortOrder < call.afterKey

AppendToOnlySibling ==
    /\ call.op = "reorderAccountBetween" /\ call.result = "row"
    /\ call.beforeId # NULL /\ call.afterId = NULL
    /\ call.beforeId < call.id
    /\ Resolves(call.beforeId)
    /\ Siblings(call.id) = {call.beforeId, call.id}

(* C4, as stated: with S and X the two accounts of a kid, S created first, *)
(* after reorder-account(X, beforeId = S) the full read lists [X, S].      *)
C4_SpendingFirst ==
    AppendToOnlySibling =>
        \A v \in FullLedgerViews(ledgers, kids, accounts, kids[accounts[call.id].kidId].ledgerId) :
            \A i \in 1..Len(v) :
                v[i].id = accounts[call.id].kidId =>
                    [j \in 1..Len(v[i].accounts) |-> v[i].accounts[j].id]
                        = <<call.id, call.beforeId>>

(* C4, amended: with S and X the two accounts of a kid, S created first,  *)
(* after reorder-account(X, beforeId = S) X has the key of S plus 1 and   *)
(* the full read lists [S, X].                                            *)
C4_SavingsFirst ==
    AppendToOnlySibling =>
        \A v \in FullLedgerViews(ledgers, kids, accounts, kids[accounts[call.id].kidId].ledgerId) :
            \A i \in 1..Len(v) :
                v[i].id = accounts[call.id].kidId =>
                    [j \in 1..Len(v[i].accounts) |-> v[i].accounts[j].id]
                        = <<call.beforeId, call.id>>

C4_Witness ==
    /\ AppendToOnlySibling
    /\ call.beforeKey = NextSortOrder(SelectMaxOrder({}))
    /\ accounts[call.id].sortOrder = call.beforeKey + Unit

(* C5: a reorder that names a neighbor which is no existing sibling of the *)
(* target fails, and writes nothing.                                       *)
C5_NeighborResolution ==
    (/\ IsReorder
     /\ call.found
     /\ \/ call.beforeId # NULL /\ ~Resolves(call.beforeId)
        \/ call.afterId # NULL /\ ~Resolves(call.afterId))
    => (call.result = "null" /\ call.newSortOrder = NULL)

SortedByKeyThenId(list) ==
    \A i \in 1..Len(list) : \A j \in 1..Len(list) :
        i < j =>
            \/ list[i].row.sortOrder < list[j].row.sortOrder
            \/ /\ list[i].row.sortOrder = list[j].row.sortOrder
               /\ list[i].id < list[j].id

(* C7: getFullLedger returns the kids, and the accounts of every kid, in *)
(* ascending (sortOrder, id) order.                                      *)
C7_ReadOrder ==
    (call.op = "getFullLedger" /\ call.result = "view") =>
        /\ SortedByKeyThenId(call.view)
        /\ \A i \in 1..Len(call.view) : SortedByKeyThenId(call.view[i].accounts)

(* C8: a reorder with no neighbor named gives the target the key 0; every  *)
(* read lists it before the siblings with a positive key, and lists the    *)
(* siblings with key 0 in ascending id order.                              *)
C8_MoveToFront ==
    (ReorderDone /\ call.beforeId = NULL /\ call.afterId = NULL) =>
        /\ Table[call.id].sortOrder = 0
        /\ \A s \in SiblingReads(call.id) : \A y \in Siblings(call.id) \ {call.id} :
               /\ Table[y].sortOrder > 0 => Before(s, call.id, y)
               /\ Table[y].sortOrder = 0 => (Before(s, call.id, y) <=> call.id < y)

(* C10: a reorder that names only beforeId = B gives the target the key of *)
(* B plus 1, and every read lists the target after all its siblings.       *)
C10_AppendAfter ==
    (/\ ReorderDone
     /\ call.beforeId # NULL /\ call.afterId = NULL
     /\ call.beforeId # call.id
     /\ Resolves(call.beforeId))
    => /\ Table[call.id].sortOrder = call.beforeKey + Unit
       /\ \A s \in SiblingReads(call.id) : \A y \in Siblings(call.id) \ {call.id} :
              Before(s, y, call.id)

----------------------------------------------------------------------------
(* SpecFrame: reorders while the clock runs, one call at a time, on two  *)
(* kids of one ledger or on two accounts of one kid                      *)

InitFrame ==
    /\ ledgers = LedgersCreated({"L1"})
    /\ usedLedgerIds = {"L1"}
    /\ \/ /\ kids = KidsCreated(2, <<"L1", "L1">>)
          /\ kidSeq = 2
          /\ accounts = <<>>
          /\ accountSeq = 0
       \/ /\ kids = KidsCreated(1, <<"L1">>)
          /\ kidSeq = 1
          /\ accounts = AccountsCreated(2, <<1, 1>>, 10)
          /\ accountSeq = 2
    /\ hist = NoHistory(accounts)
    /\ now = 0
    /\ schema = Migrated
    /\ call = Idle
    /\ procs = [p \in Procs |-> Idle]

NextFrame ==
    \/ /\ call = Idle
       /\ Tick
    \/ /\ call = Idle
       /\ accounts = <<>>
       /\ \E k \in KidIdArgs, b \in KidIdArgs \cup {NULL}, a \in KidIdArgs \cup {NULL} :
              ReorderKidBetween(k, b, a)
    \/ /\ call = Idle
       /\ accounts # <<>>
       /\ \E k \in AccountIdArgs, b \in AccountIdArgs \cup {NULL},
                a \in AccountIdArgs \cup {NULL} :
              ReorderAccountBetween(k, b, a)
    \/ Return

SpecFrame == InitFrame /\ [][NextFrame]_vars

(* C9: a reorder that succeeds writes the sort key and updatedAt of the  *)
(* target row and nothing else: every other row of every table, and the *)
(* target's name, emoji or balance and parent, stay as they were.        *)
C9_ReorderFrame ==
    [][(call = Idle /\ ReorderDone') =>
          /\ ledgers' = ledgers
          /\ DOMAIN kids' = DOMAIN kids
          /\ DOMAIN accounts' = DOMAIN accounts
          /\ IF call'.op = "reorderKidBetween"
             THEN /\ accounts' = accounts
                  /\ \A k \in DOMAIN kids \ {call'.id} : kids'[k] = kids[k]
                  /\ kids'[call'.id] =
                         [kids[call'.id] EXCEPT !.sortOrder = call'.newSortOrder,
                                                !.updatedAt = now]
             ELSE /\ kids' = kids
                  /\ \A a \in DOMAIN accounts \ {call'.id} : accounts'[a] = accounts[a]
                  /\ accounts'[call'.id] =
                         [accounts[call'.id] EXCEPT !.sortOrder = call'.newSortOrder,
                                                    !.updatedAt = now]
      ]_vars

C9_Witness ==
    /\ ReorderDone
    /\ now > 0
    /\ Table[call.id].updatedAt = now
    /\ Table[call.id].sortOrder # NextSortOrder(SelectMaxOrder({}))
    /\ \E y \in Siblings(call.id) \ {call.id} :
           /\ Table[y].updatedAt < now
           /\ Table[y].sortOrder = NextSortOrder(SelectMaxOrder({}))

----------------------------------------------------------------------------
(* SpecBalance: update-balance intents, one call at a time, on two *)
(* accounts created with the same balance                          *)

InitBalance ==
    /\ ledgers = LedgersCreated({"L1"})
    /\ usedLedgerIds = {"L1"}
    /\ kids = KidsCreated(1, <<"L1">>)
    /\ kidSeq = 1
    /\ \E b0 \in {0, 10} : accounts = AccountsCreated(2, <<1, 1>>, b0)
    /\ accountSeq = 2
    /\ hist = NoHistory(accounts)
    /\ now = 0
    /\ schema = Migrated
    /\ call = Idle
    /\ procs = [p \in Procs |-> Idle]

NextBalance ==
    \/ /\ call = Idle
       /\ \E id \in AccountIdArgs, amount \in Amounts, operation \in Operations :
              UpdateBalance(id, amount, operation)
    \/ Return

SpecBalance == InitBalance /\ [][NextBalance]_vars

(* C2: when update-balance calls do not overlap, the stored balance of an *)
(* account is the balance it was created with, plus the amounts added,    *)
(* minus the amounts removed; it may be negative.                         *)
C2_SequentialBalance ==
    \A a \in DOMAIN accounts : accounts[a].balance = hist[a].base + hist[a].net

C2_Witness ==
    /\ call.op = "update-balance" /\ call.result = "success"
    /\ call.operation = "remove" /\ call.amount = 20 /\ call.balance = 15
    /\ hist[call.id].base = 10 /\ hist[call.id].net = 0 - 15
    /\ accounts[call.id].balance = 0 - 5

----------------------------------------------------------------------------
(* Requests in flight: one step is one round trip to the store.  The *)
(* frame of a request stays until its caller has taken the result.   *)

ProcReturn(p) ==
    /\ procs[p].pc = "done"
    /\ procs[p] # Idle
    /\ procs' = [procs EXCEPT ![p] = Idle]
    /\ UNCHANGED <<store, now, schema, call, hist>>

BalanceWrittenAtomic(as, f) ==
    IF f.id \in DOMAIN as THEN NewBalance(as[f.id].balance, f.amount, f.operation)
    ELSE NewBalance(f.balance, f.amount, f.operation)
(* the balance 'update-balance' hands to updateAccount: computed from the *)
(* account it read, whatever the row holds by now                         *)
BalanceWritten(as, f) == NewBalance(f.balance, f.amount, f.operation)

(* 'update-balance': const account = await context.db.getAccount(id) *)
UpdateBalanceRead(p, id, amount, operation) ==
    /\ procs[p] = Idle
    /\ procs' = [procs EXCEPT ![p] =
           IF id \in DOMAIN accounts
           THEN [Frame("update-balance") EXCEPT !.pc = "updateAccount", !.id = id,
                    !.amount = amount, !.operation = operation, !.found = TRUE,
                    !.balance = accounts[id].balance]
           ELSE [Frame("update-balance") EXCEPT !.id = id, !.amount = amount,
                    !.operation = operation, !.result = "ACCOUNT_NOT_FOUND"]]
    /\ UNCHANGED <<store, now, schema, call, hist>>

(* 'update-balance': await context.db.updateAccount(id, {balance: newBalance}), *)
(* then return {success: true}                                                  *)
UpdateBalanceWrite(p) ==
    LET f          == procs[p]
        newBalance == BalanceWritten(accounts, f)
        delta      == IF f.operation = "add" THEN f.amount ELSE 0 - f.amount
    IN  /\ f.op = "update-balance" /\ f.pc = "updateAccount"
        /\ newBalance <= MaxBalance /\ newBalance >= 0 - MaxBalance
        /\ f.id \in DOMAIN hist =>
               (hist[f.id].net + delta <= MaxBalance
                    /\ hist[f.id].net + delta >= 0 - MaxBalance)
        /\ accounts' = UpdateBalanceStmt(accounts, f.id, newBalance, now)
        /\ hist' = IF f.id \in DOMAIN hist
                   THEN [hist EXCEPT ![f.id].net = @ + delta] ELSE hist
        /\ procs' = [procs EXCEPT ![p] = [f EXCEPT !.pc = "done", !.result = "success"]]
        /\ UNCHANGED <<ledgers, kids, usedLedgerIds, kidSeq, accountSeq, now, schema, call>>

----------------------------------------------------------------------------
(* SpecBalanceConc: update-balance intents of two requests, interleaved, *)
(* on one account created with balance 0                                 *)

InitBalanceConc ==
    /\ ledgers = LedgersCreated({"L1"})
    /\ usedLedgerIds = {"L1"}
    /\ kids = KidsCreated(1, <<"L1">>)
    /\ kidSeq = 1
    /\ accounts = AccountsCreated(1, <<1>>, 0)
    /\ accountSeq = 1
    /\ hist = NoHistory(accounts)
    /\ now = 0
    /\ schema = Migrated
    /\ call = Idle
    /\ procs = [p \in Procs |-> Idle]

NextBalanceConc ==
    \E p \in Procs :
        \/ \E id \in AccountIdArgs, amount \in {5, 10}, operation \in Operations :
               UpdateBalanceRead(p, id, amount, operation)
        \/ UpdateBalanceWrite(p)
        \/ ProcReturn(p)

SpecBalanceConc == InitBalanceConc /\ [][NextBalanceConc]_vars

Succeeded(p) == procs[p].op = "update-balance" /\ procs[p].result = "success"

Delta(p) == IF procs[p].operation = "add" THEN procs[p].amount ELSE 0 - procs[p].amount

(* C1: when two update-balance calls on one account have both read the    *)
(* same balance and both reported success, the stored balance is the      *)
(* balance they read changed by the amount of one of them: the other      *)
(* amount is lost.  Two calls adding 10 to a balance of 0 can leave 10.    *)
C1_LostUpdate ==
    \A p \in Procs : \A q \in Procs \ {p} :
        (/\ Succeeded(p) /\ Succeeded(q)
         /\ procs[p].id = procs[q].id
         /\ procs[p].balance = procs[q].balance
         /\ procs[p].id \in DOMAIN accounts)
        => \/ accounts[procs[p].id].balance = procs[p].balance + Delta(p)
           \/ accounts[procs[p].id].balance = procs[q].balance + Delta(q)

C1_Witness ==
    /\ \A p \in Procs :
           /\ Succeeded(p)
           /\ procs[p].id = 1 /\ procs[p].balance = 0
           /\ procs[p].operation = "add" /\ procs[p].amount = 10
    /\ hist[1].base = 0 /\ hist[1].net = 20
    /\ accounts[1].balance = 10

(* what C1 rules out: every successful update-balance is in the balance *)
C1_NoUpdateLost ==
    \A a \in DOMAIN accounts : accounts[a].balance = hist[a].base + hist[a].net


----------------------------------------------------------------------------
(* The methods of DB that make more than one round trip, one step per *)
(* round trip.  A method that returns or throws leaves its request    *)
(* Idle: what the route does with the outcome changes no row.         *)

(* createKid: SELECT MAX(sort_order) as max_order FROM kids WHERE ledger_id = ? *)
CreateKidSelectMax(p, ledgerId, name, emoji) ==
    /\ procs[p] = Idle
    /\ procs' = [procs EXCEPT ![p] =
           [Frame("createKid") EXCEPT !.pc = "insert", !.lid = ledgerId,
               !.data = [name |-> name, emoji |-> emoji],
               !.newSortOrder =
                   NextSortOrder(SelectMaxOrder(KidKeys(kids, ledgerId)))]]
    /\ UNCHANGED <<store, now, schema, call, hist>>

(* createKid: INSERT INTO kids (ledger_id, name, emoji, sort_order) *)
(* (the model issues kid ids up to last only)                       *)
CreateKidInsertUpTo(p, last) ==
    LET f  == procs[p]
        ok == f.lid \in DOMAIN ledgers
        id == kidSeq + 1
    IN  /\ f.op = "createKid" /\ f.pc = "insert"
        /\ ok => kidSeq < last
        /\ kids' = IF ok
                   THEN InsertKid(kids, id, f.lid, f.data.name, f.data.emoji,
                                  f.newSortOrder, now)
                   ELSE kids
        /\ kidSeq' = IF ok THEN id ELSE kidSeq
        /\ procs' = [procs EXCEPT ![p] = Idle]
        /\ UNCHANGED <<ledgers, accounts, usedLedgerIds, accountSeq, now, schema, call, hist>>

CreateKidInsert(p) == CreateKidInsertUpTo(p, MaxKidId)

(* createAccount: SELECT MAX(sort_order) as max_order FROM accounts WHERE kid_id = ? *)
CreateAccountSelectMax(p, kidId, name, balance) ==
    /\ procs[p] = Idle
    /\ procs' = [procs EXCEPT ![p] =
           [Frame("createAccount") EXCEPT !.pc = "insert", !.kidId = kidId,
               !.data = [name |-> name], !.balance = balance,
               !.newSortOrder =
                   NextSortOrder(SelectMaxOrder(AccountKeys(accounts, kidId)))]]
    /\ UNCHANGED <<store, now, schema, call, hist>>

(* createAccount: INSERT INTO accounts (kid_id, name, balance, sort_order) *)
(* (the model issues account ids up to last only)                          *)
CreateAccountInsertUpTo(p, last) ==
    LET f  == procs[p]
        ok == f.kidId \in DOMAIN kids
        id == accountSeq + 1
    IN  /\ f.op = "createAccount" /\ f.pc = "insert"
        /\ ok => accountSeq < last
        /\ accounts' = IF ok
                       THEN InsertAccount(accounts, id, f.kidId, f.data.name,
                                          f.balance, f.newSortOrder, now)
                       ELSE accounts
        /\ accountSeq' = IF ok THEN id ELSE accountSeq
        /\ hist' = IF ok
                   THEN [a \in DOMAIN hist \cup {id} |->
                            IF a = id THEN [base |-> f.balance, net |-> 0] ELSE hist[a]]
                   ELSE hist
        /\ procs' = [procs EXCEPT ![p] = Idle]
        /\ UNCHANGED <<ledgers, kids, usedLedgerIds, kidSeq, now, schema, call>>

CreateAccountInsert(p) == CreateAccountInsertUpTo(p, MaxAccountId)

(* reorderKidBetween / reorderAccountBetween: the first getKid / getAccount *)
(* and the choice of the branch                                             *)
ReorderGetTarget(op, rows, id, beforeId, afterId) ==
    LET f == [Frame(op) EXCEPT !.id = id, !.beforeId = beforeId,
                 !.afterId = afterId, !.found = id \in DOMAIN rows]
    IN  IF id \notin DOMAIN rows THEN Idle
        ELSE IF beforeId = NULL /\ afterId = NULL
             THEN [f EXCEPT !.pc = "reorder", !.newSortOrder = KeyFront]
        ELSE IF beforeId = NULL THEN [f EXCEPT !.pc = "getAfter"]
        ELSE [f EXCEPT !.pc = "getBefore"]

(* the getKid / getAccount of beforeId *)
ReorderGetBefore(f, rows) ==
    LET beforeKey == IF f.beforeId \in DOMAIN rows
                     THEN rows[f.beforeId].sortOrder ELSE NULL
    IN  IF f.afterId # NULL
        THEN [f EXCEPT !.pc = "getAfter", !.beforeKey = beforeKey]
        ELSE IF beforeKey = NULL THEN Idle
        ELSE [f EXCEPT !.pc = "reorder", !.beforeKey = beforeKey,
                       !.newSortOrder = KeyAfterLast(beforeKey)]

(* the getKid / getAccount of afterId *)
ReorderGetAfter(f, rows) ==
    LET afterKey == IF f.afterId \in DOMAIN rows
                    THEN rows[f.afterId].sortOrder ELSE NULL
    IN  IF afterKey = NULL \/ (f.beforeId # NULL /\ f.beforeKey = NULL)
        THEN Idle
        ELSE [f EXCEPT !.pc = "reorder", !.afterKey = afterKey,
                       !.newSortOrder = IF f.beforeId = NULL
                                        THEN KeyBeforeFirst(afterKey)
                                        ELSE KeyBetween(f.beforeKey, afterKey)]

(* reorderKid / reorderAccount: its own getKid / getAccount *)
ReorderGetRow(f, rows) ==
    IF f.id \in DOMAIN rows THEN [f EXCEPT !.pc = "update"] ELSE Idle

ReorderKidStart(p, id, beforeId, afterId) ==
    /\ procs[p] = Idle
    /\ procs' = [procs EXCEPT ![p] =
           ReorderGetTarget("reorderKidBetween", kids, id, beforeId, afterId)]
    /\ UNCHANGED <<store, now, schema, call, hist>>

ReorderKidRead(p) ==
    LET f == procs[p]
        g == IF f.pc = "getBefore" THEN ReorderGetBefore(f, kids)
             ELSE IF f.pc = "getAfter" THEN ReorderGetAfter(f, kids)
             ELSE ReorderGetRow(f, kids)
    IN  /\ f.op = "reorderKidBetween"
        /\ f.pc \in {"getBefore", "getAfter", "reorder"}
        /\ g.newSortOrder <= MaxKey * Unit
        /\ procs' = [procs EXCEPT ![p] = g]
        /\ UNCHANGED <<store, now, schema, call, hist>>

ReorderKidUpdate(p) ==
    LET f == procs[p]
    IN  /\ f.op = "reorderKidBetween" /\ f.pc = "update"
        /\ kids' = UpdateSortOrder(kids, f.id, f.newSortOrder, now)
        /\ procs' = [procs EXCEPT ![p] = Idle]
        /\ UNCHANGED <<ledgers, accounts, usedLedgerIds, kidSeq, accountSeq, now, schema,
                       call, hist>>

ReorderAccountStart(p, id, beforeId, afterId) ==
    /\ procs[p] = Idle
    /\ procs' = [procs EXCEPT ![p] =
           ReorderGetTarget("reorderAccountBetween", accounts, id, beforeId, afterId)]
    /\ UNCHANGED <<store, now, schema, call, hist>>

ReorderAccountRead(p) ==
    LET f == procs[p]
        g == IF f.pc = "getBefore" THEN ReorderGetBefore(f, accounts)
             ELSE IF f.pc = "getAfter" THEN ReorderGetAfter(f, accounts)
             ELSE ReorderGetRow(f, accounts)
    IN  /\ f.op = "reorderAccountBetween"
        /\ f.pc \in {"getBefore", "getAfter", "reorder"}
        /\ g.newSortOrder <= MaxKey * Unit
        /\ procs' = [procs EXCEPT ![p] = g]
        /\ UNCHANGED <<store, now, schema, call, hist>>

ReorderAccountUpdate(p) ==
    LET f == procs[p]
    IN  /\ f.op = "reorderAccountBetween" /\ f.pc = "update"
        /\ accounts' = UpdateSortOrder(accounts, f.id, f.newSortOrder, now)
        /\ procs' = [procs EXCEPT ![p] = Idle]
        /\ UNCHANGED <<ledgers, kids, usedLedgerIds, kidSeq, accountSeq, now, schema,
                       call, hist>>

(* a request that makes one round trip: the statement, with no frame kept *)
Single(stmt) == stmt /\ UNCHANGED <<call, procs>>


----------------------------------------------------------------------------
(* SpecCascade: every write of the ledger route, from the empty database, *)
(* issued by requests whose round trips interleave                        *)

InitCascade ==
    /\ ledgers = <<>>
    /\ usedLedgerIds = {}
    /\ kids = <<>>
    /\ kidSeq = 0
    /\ accounts = <<>>
    /\ accountSeq = 0
    /\ hist = <<>>
    /\ now = 0
    /\ schema = Migrated
    /\ call = Idle
    /\ procs = [p \in Procs |-> Idle]

NextCascade ==
    \/ \E id \in LedgerIds : Single(InsertLedger(id, "n1"))
    \/ \E id \in DOMAIN ledgers : Single(UpdateLedgers(id, [name |-> "n1"]))
    \/ \E id \in DOMAIN ledgers : Single(DeleteFromLedgers(id))
    \/ \E id \in DOMAIN kids : Single(UpdateKids(id, [name |-> "n1"]))
    \/ \E id \in DOMAIN kids : Single(DeleteFromKids(id))
    \/ \E id \in DOMAIN accounts : Single(UpdateAccounts(id, [name |-> "n1"]))
    \/ \E id \in DOMAIN accounts : Single(DeleteFromAccounts(id))
    \/ \E p \in Procs, ledgerId \in LedgerIds : CreateKidSelectMax(p, ledgerId, "n1", "e1")
    \/ \E p \in Procs : CreateKidInsert(p)
    \/ \E p \in Procs, kidId \in KidIdArgs : CreateAccountSelectMax(p, kidId, "n1", 0)
    \/ \E p \in Procs : CreateAccountInsert(p)
    \/ \E p \in Procs, id \in KidIdArgs : ReorderKidStart(p, id, NULL, NULL)
    \/ \E p \in Procs : ReorderKidRead(p)
    \/ \E p \in Procs : ReorderKidUpdate(p)
    \/ \E p \in Procs, id \in AccountIdArgs : ReorderAccountStart(p, id, NULL, NULL)
    \/ \E p \in Procs : ReorderAccountRead(p)
    \/ \E p \in Procs : ReorderAccountUpdate(p)
    \/ \E p \in Procs, id \in AccountIdArgs : UpdateBalanceRead(p, id, 20, "add")
    \/ \E p \in Procs : UpdateBalanceWrite(p)
    \/ \E p \in Procs : ProcReturn(p)

SpecCascade == InitCascade /\ [][NextCascade]_vars

(* C6: in every reachable state each kid's ledger and each account's kid *)
(* exist: no sequence or interleaving of creates, updates, reorders,     *)
(* balance updates and deletes leaves an orphan row                      *)
C6_NoOrphans ==
    /\ \A k \in DOMAIN kids : kids[k].ledgerId \in DOMAIN ledgers
    /\ \A a \in DOMAIN accounts : accounts[a].kidId \in DOMAIN kids


(* a ledger that had a kid with an account is gone with both rows, while *)
(* a createAccount that read MAX(sort_order) for that kid has its INSERT *)
(* still to come                                                         *)
C6_Witness ==
    /\ usedLedgerIds # {} /\ ledgers = <<>>
    /\ kidSeq = 1 /\ kids = <<>>
    /\ accountSeq = 1 /\ accounts = <<>>
    /\ \E p \in Procs :
           /\ procs[p].op = "createAccount" /\ procs[p].pc = "insert"
           /\ procs[p].kidId = 1


----------------------------------------------------------------------------
(* Reorders that name one neighbor, under SpecReorder *)

BeforeFirstCase ==
    /\ ReorderDone
    /\ call.beforeId = NULL /\ call.afterId # NULL
    /\ call.afterId # call.id
    /\ Resolves(call.afterId)

(* C11: a reorder that names only afterId = A gives the target half the   *)
(* key of A (exactly, when the half is a representable number; rounded to *)
(* one otherwise).  When the key of A is positive the new key is below it *)
(* and every read lists the target before A; when the key of A is 0 the   *)
(* new key is 0 too.                                                      *)
C11_InsertBefore ==
    BeforeFirstCase =>
        LET k == Table[call.id].sortOrder
            a == call.afterKey
        IN  /\ a = Table[call.afterId].sortOrder
            /\ a % 2 = 0 => 2 * k = a
            /\ 2 * k - a \in {0 - 1, 0, 1}
            /\ a > 0 => /\ k < a
                        /\ \A s \in SiblingReads(call.id) :
                               Before(s, call.id, call.afterId)
            /\ a = 0 => k = 0

(* half of a positive key, exactly *)
C11_Witness ==
    /\ BeforeFirstCase
    /\ call.afterKey > 0
    /\ 2 * Table[call.id].sortOrder = call.afterKey

(* a tie at 0 with the neighbor *)
C11_WitnessTie ==
    /\ BeforeFirstCase
    /\ call.afterKey = 0
    /\ Table[call.id].sortOrder = 0


----------------------------------------------------------------------------
(* SpecCalls: every method of DB and the update-balance intent, one call *)
(* at a time, each call later than the one before, on two ledgers whose  *)
(* kids and accounts a run of creates has left                           *)

(* kid i was created under L1 when i is odd, under L2 when i is even; *)
(* account i under kid i                                              *)
InitCalls ==
    /\ ledgers = LedgersCreated({"L1", "L2"})
    /\ usedLedgerIds = {"L1", "L2"}
    /\ kids = KidsCreated(MaxSeq - 1,
                          [i \in 1..(MaxSeq - 1) |-> IF i % 2 = 1 THEN "L1" ELSE "L2"])
    /\ kidSeq = MaxSeq - 1
    /\ accounts = AccountsCreated(MaxSeq - 1, [i \in 1..(MaxSeq - 1) |-> i], 10)
    /\ accountSeq = MaxSeq - 1
    /\ hist = NoHistory(accounts)
    /\ now = 0
    /\ schema = Migrated
    /\ call = Idle
    /\ procs = [p \in Procs |-> Idle]

(* the caller takes the result; its next call comes at a later time *)
ReturnLater ==
    /\ call # Idle
    /\ now < MaxTime
    /\ call' = Idle
    /\ now' = now + 1
    /\ UNCHANGED <<store, schema, procs, hist>>

NextCalls ==
    \/ /\ call = Idle
       /\ \/ \E id \in LedgerIds, data \in {<<>>, [name |-> "n2"]} : UpdateLedger(id, data)
          \/ \E id \in LedgerIds : DeleteLedger(id)
          \/ \E ledgerId \in LedgerIds : CreateKid(ledgerId, "n1", "e1")
          \/ \E id \in KidIdArgs, data \in {<<>>, [name |-> "n2"], [emoji |-> "e2"],
                                              [name |-> "n2", emoji |-> "e2"]} :
                 UpdateKid(id, data)
          \/ \E id \in KidIdArgs : DeleteKid(id)
          \/ \E id \in KidIdArgs, beforeId \in KidIdArgs \cup {NULL},
                afterId \in KidIdArgs \cup {NULL} :
                 ReorderKidBetween(id, beforeId, afterId)
          \/ \E kidId \in KidIdArgs, balance \in {0, 25} : CreateAccount(kidId, "n1", balance)
          \/ \E id \in AccountIdArgs, data \in {<<>>, [name |-> "n2"], [balance |-> 5]} :
                 UpdateAccount(id, data)
          \/ \E id \in AccountIdArgs : DeleteAccount(id)
          \/ \E id \in AccountIdArgs, beforeId \in AccountIdArgs \cup {NULL},
                afterId \in AccountIdArgs \cup {NULL} :
                 ReorderAccountBetween(id, beforeId, afterId)
          \/ \E id \in AccountIdArgs, operation \in Operations :
                 UpdateBalance(id, 20, operation)
          \/ \E ledgerId \in LedgerIds : GetFullLedger(ledgerId)
          \/ \E id \in LedgerIds : GetLedger(id)
          \/ \E id \in KidIdArgs : GetKid(id)
          \/ \E id \in AccountIdArgs : GetAccount(id)
    \/ ReturnLater

SpecCalls == InitCalls /\ [][NextCalls]_vars

LedgerOfKid(ks, k) == IF k \in DOMAIN ks THEN ks[k].ledgerId ELSE ""

LedgerOfAccount(ks, as, a) ==
    IF a \in DOMAIN as THEN LedgerOfKid(ks, as[a].kidId) ELSE ""

(* the rows ledger l owns: its own row, its kids, their accounts *)
Owned(ls, ks, as, l) ==
    [ledger   |-> Restrict(ls, DOMAIN ls \cap {l}),
     kids     |-> Restrict(ks, KidsOf(ks, l)),
     accounts |-> Restrict(as, {a \in DOMAIN as : LedgerOfAccount(ks, as, a) = l})]

(* what getFullLedger(l) can return: null (no view) or one of the views *)
FullLedgerReads(ls, ks, as, l) ==
    IF l \in DOMAIN ls THEN FullLedgerViews(ls, ks, as, l) ELSE {}

(* the ledger that the target of call f belongs to, "" when it resolves *)
(* to none                                                              *)
TargetLedger(f) ==
    IF f.op \in {"createLedger", "updateLedger", "deleteLedger", "getFullLedger",
                 "getLedger", "createKid"}
    THEN f.lid
    ELSE IF f.op \in {"updateKid", "deleteKid", "reorderKidBetween", "getKid"}
    THEN LedgerOfKid(kids, f.id)
    ELSE IF f.op = "createAccount" THEN LedgerOfKid(kids, f.kidId)
    ELSE LedgerOfAccount(kids, accounts, f.id)

(* every kid of the view is a kid of ledger l; every account listed under *)
(* a kid is an account of that kid                                        *)
ViewWithin(v, l) ==
    \A i \in 1..Len(v) :
        /\ v[i].row.ledgerId = l
        /\ \A j \in 1..Len(v[i].accounts) : v[i].accounts[j].row.kidId = v[i].id

(* C12: a call whose target belongs to one ledger leaves every row owned *)
(* by any other ledger as it was, so getFullLedger of the other ledger   *)
(* returns the same before and after; and the view getFullLedger(L)      *)
(* returns holds kids of L and, under each, accounts of that kid only.   *)
C12_Isolation ==
    [][(call = Idle /\ call' # Idle) =>
          /\ \A l \in LedgerIds :
                 l # TargetLedger(call') =>
                     /\ Owned(ledgers', kids', accounts', l)
                            = Owned(ledgers, kids, accounts, l)
                     /\ FullLedgerReads(ledgers', kids', accounts', l)
                            = FullLedgerReads(ledgers, kids, accounts, l)
          /\ (call'.op = "getFullLedger" /\ call'.result = "view") =>
                 ViewWithin(call'.view, call'.lid)
      ]_vars

(* a kid reordered after a kid of another ledger: the neighbor was read, *)
(* the target alone was written                                          *)
C12_Witness ==
    /\ ReorderDone /\ IsKidReorder
    /\ call.beforeId \in DOMAIN kids
    /\ kids[call.beforeId].ledgerId # kids[call.id].ledgerId
    /\ kids[call.id].sortOrder = call.beforeKey + Unit
    /\ \E a \in DOMAIN accounts : accounts[a].kidId = call.beforeId


----------------------------------------------------------------------------
(* Deletes, under SpecCalls *)

IsDelete(f) == f.op \in {"deleteLedger", "deleteKid", "deleteAccount"}

(* the key the delete was called with *)
DeleteKey(f) == IF f.op = "deleteLedger" THEN f.lid ELSE f.id

(* the keys of the table the delete works on *)
DeleteKeys(f, ls, ks, as) ==
    IF f.op = "deleteLedger" THEN DOMAIN ls
    ELSE IF f.op = "deleteKid" THEN DOMAIN ks ELSE DOMAIN as

(* C13: deleteLedger, deleteKid and deleteAccount return true exactly    *)
(* when the id named a row, and the row is gone afterwards; on an id     *)
(* that names no row (deleted by the call before, or never there) they   *)
(* return false, raise nothing and leave the store as it was.  So two    *)
(* deletes of one existing id in a row return true, then false.          *)
C13_DeleteIdempotent ==
    [][(call = Idle /\ IsDelete(call')) =>
          LET existed == DeleteKey(call') \in DeleteKeys(call', ledgers, kids, accounts)
          IN  /\ call'.result = IF existed THEN "true" ELSE "false"
              /\ DeleteKey(call') \notin DeleteKeys(call', ledgers', kids', accounts')
              /\ ~existed => (store' = store /\ hist' = hist)
      ]_vars

(* the second of two deleteKid calls on kid 1: nothing else has been *)
(* touched, so the call before was deleteKid(1)                      *)
C13_Witness ==
    /\ call.op = "deleteKid" /\ call.id = 1 /\ call.result = "false"
    /\ now = 1
    /\ DOMAIN ledgers = {"L1", "L2"}
    /\ DOMAIN kids = (1..kidSeq) \ {1}
    /\ kidSeq = MaxSeq - 1
    /\ 1 \notin DOMAIN accounts


----------------------------------------------------------------------------
(* getFullLedger, one step per round trip.  The frame keeps, besides the *)
(* locals, every state the tables went through since the call began      *)
(* (seen): history only, the method reads none of it.                    *)

Snapshot(ls, ks, as) == [ledgers |-> ls, kids |-> ks, accounts |-> as]

(* const ledger = await this.getLedger(ledgerId); if (!ledger) return null *)
FullLedgerGetLedger(p, ledgerId) ==
    /\ procs[p] = Idle
    /\ procs' = [procs EXCEPT ![p] =
           IF ledgerId \in DOMAIN ledgers
           THEN [Frame("getFullLedger") EXCEPT !.pc = "getKids", !.lid = ledgerId,
                    !.found = TRUE, !.seen = {Snapshot(ledgers, kids, accounts)}]
           ELSE [Frame("getFullLedger") EXCEPT !.lid = ledgerId, !.result = "null"]]
    /\ UNCHANGED <<store, now, schema, call, hist>>

(* const kids = await this.getKidsByLedger(ledgerId) *)
FullLedgerGetKids(p) ==
    LET f == procs[p]
    IN  /\ f.op = "getFullLedger" /\ f.pc = "getKids"
        /\ \E s \in GetKidsByLedger(kids, f.lid) :
               procs' = [procs EXCEPT ![p] =
                   [f EXCEPT !.view = [i \in 1..Len(s) |->
                                          [id |-> s[i], row |-> kids[s[i]],
                                           accounts |-> <<>>]],
                             !.todo = {s[i] : i \in 1..Len(s)},
                             !.pc = IF Len(s) = 0 THEN "done" ELSE "getAccounts",
                             !.result = IF Len(s) = 0 THEN "view" ELSE "none"]]
        /\ UNCHANGED <<store, now, schema, call, hist>>

(* kids.map(async (kid) => ...getAccountsByKid(kid.id)...) under        *)
(* Promise.all: one query per kid, answered in any order; the last      *)
(* answer completes the view                                            *)
FullLedgerGetAccounts(p, kidId) ==
    LET f == procs[p]
    IN  /\ f.op = "getFullLedger" /\ f.pc = "getAccounts"
        /\ kidId \in f.todo
        /\ \E r \in GetAccountsByKid(accounts, kidId) :
               procs' = [procs EXCEPT ![p] =
                   [f EXCEPT !.view = [i \in 1..Len(f.view) |->
                                          IF f.view[i].id = kidId
                                          THEN [f.view[i] EXCEPT !.accounts =
                                                   [j \in 1..Len(r) |->
                                                       [id |-> r[j], row |-> accounts[r[j]]]]]
                                          ELSE f.view[i]],
                             !.todo = f.todo \ {kidId},
                             !.pc = IF f.todo = {kidId} THEN "done" ELSE "getAccounts",
                             !.result = IF f.todo = {kidId} THEN "view" ELSE "none"]]
        /\ UNCHANGED <<store, now, schema, call, hist>>

(* a request that makes one round trip, while getFullLedger calls are in *)
(* flight: the statement, and the new state of the tables entered in the *)
(* history of every such call                                            *)
Observed(stmt) ==
    /\ stmt
    /\ procs' = [p \in Procs |->
           IF procs[p].op = "getFullLedger" /\ procs[p].pc # "done"
           THEN [procs[p] EXCEPT !.seen = @ \cup {Snapshot(ledgers', kids', accounts')}]
           ELSE procs[p]]
    /\ UNCHANGED call

----------------------------------------------------------------------------
(* SpecSnapshot: a getFullLedger call, one step per round trip, while    *)
(* other requests delete kids and write balances                         *)

InitSnapshot ==
    /\ ledgers = LedgersCreated({"L1"})
    /\ usedLedgerIds = {"L1"}
    /\ kids = KidsCreated(MaxSeq - 1, [i \in 1..(MaxSeq - 1) |-> "L1"])
    /\ kidSeq = MaxSeq - 1
    /\ accounts = AccountsCreated(MaxSeq - 1, [i \in 1..(MaxSeq - 1) |-> i], 10)
    /\ accountSeq = MaxSeq - 1
    /\ hist = NoHistory(accounts)
    /\ now = 0
    /\ schema = Migrated
    /\ call = Idle
    /\ procs = [p \in Procs |-> Idle]

(* the process that calls getFullLedger; the other requests need none *)
Reader == "p1"

NextSnapshot ==
    \/ FullLedgerGetLedger(Reader, "L1")
    \/ FullLedgerGetKids(Reader)
    \/ \E kidId \in KidIdArgs : FullLedgerGetAccounts(Reader, kidId)
    \/ ProcReturn(Reader)
    \/ \E id \in KidIdArgs : Observed(DeleteFromKids(id))
    \/ \E id \in AccountIdArgs : Observed(UpdateAccounts(id, [balance |-> 5]))

SpecSnapshot == InitSnapshot /\ [][NextSnapshot]_vars

ViewReturned(p) ==
    /\ procs[p].op = "getFullLedger" /\ procs[p].pc = "done"
    /\ procs[p].result = "view"

(* the list of kids of the view, without the accounts *)
KidsRead(v) == [i \in 1..Len(v) |-> [id |-> v[i].id, row |-> v[i].row]]

(* what one SELECT of the kids of ledger l answers on tables t *)
KidsAnswers(t, l) ==
    {[i \in 1..Len(s) |-> [id |-> s[i], row |-> t.kids[s[i]]]] :
        s \in OrderedBySortOrder(t.kids, KidsOf(t.kids, l))}

(* what one SELECT of the accounts of kid k answers on tables t *)
AccountsAnswers(t, k) ==
    {[j \in 1..Len(r) |-> [id |-> r[j], row |-> t.accounts[r[j]]]] :
        r \in OrderedBySortOrder(t.accounts, AccountsOf(t.accounts, k))}

(* the view is what getFullLedger would return on tables t *)
IsViewOf(v, t, l) ==
    /\ l \in DOMAIN t.ledgers
    /\ KidsRead(v) \in KidsAnswers(t, l)
    /\ \A i \in 1..Len(v) : v[i].accounts \in AccountsAnswers(t, v[i].id)

(* C14: getFullLedger reads the kids and each kid's accounts in separate *)
(* round trips: each part of the view it returns is the answer of one    *)
(* state the tables were in during the call, but the parts may come from *)
(* different states, and then the view is the view of none of them.      *)
C14_PiecewiseRead ==
    \A p \in Procs :
        ViewReturned(p) =>
            /\ \E t \in procs[p].seen : KidsRead(procs[p].view) \in KidsAnswers(t, procs[p].lid)
            /\ \A i \in 1..Len(procs[p].view) :
                   \E t \in procs[p].seen :
                       procs[p].view[i].accounts \in AccountsAnswers(t, procs[p].view[i].id)

(* a view returned that no state of the tables during the call gives *)
C14_Witness ==
    \E p \in Procs :
        /\ ViewReturned(p)
        /\ \A t \in procs[p].seen : ~IsViewOf(procs[p].view, t, procs[p].lid)


----------------------------------------------------------------------------
(* The route action: the form of a request is parsed with the schema of   *)
(* its intent, and only a form that parses reaches the store.             *)

(* formData.get(name) of a field the form does not carry: null *)
Absent == "null"

(* the decimal texts the forms carry *)
Decimals == (0 - MaxBalance)..MaxBalance

(* Number(raw) is a number and not NaN: null, '' and blank give 0 *)
IsNumber(raw) == raw \in {Absent, "", " "} \/ \E n \in Decimals : ToString(n) = raw

NumberOf(raw) ==
    IF raw \in {Absent, "", " "} THEN 0 ELSE CHOOSE n \in Decimals : ToString(n) = raw

PositiveBad(n) == n >= 0
(* .positive() *)
Positive(n) == n > 0

(* z.coerce.number().positive() *)
CoercePositive(raw) == IsNumber(raw) /\ Positive(NumberOf(raw))

(* z.string().min(1): null is not a string *)
StringMin1(raw) == raw # Absent /\ raw # ""

(* .trim() *)
Trim(raw) == IF raw = " " THEN "" ELSE raw

(* z.string().min(1).trim().min(1) *)
NameString(raw) == StringMin1(raw) /\ Trim(raw) # ""

(* z.string().optional(): undefined or a string, and null is neither *)
OptionalString(raw) == raw # Absent

(* z.enum(['add', 'remove']) *)
OperationEnum(raw) == raw \in Operations

(* <schema of the intent>.safeParse(rawData).success *)
SafeParse(intent, form) ==
    CASE intent = "create-kid" ->
             StringMin1(form.ledgerId) /\ NameString(form.name) /\ StringMin1(form.emoji)
      [] intent = "update-kid" ->
             CoercePositive(form.id) /\ NameString(form.name) /\ StringMin1(form.emoji)
      [] intent \in {"delete-kid", "delete-account"} -> CoercePositive(form.id)
      [] intent \in {"reorder-kid", "reorder-account"} ->
             /\ CoercePositive(form.id)
             /\ OptionalString(form.beforeId) /\ OptionalString(form.afterId)
      [] intent = "create-account" ->
             CoercePositive(form.kidId) /\ NameString(form.name) /\ IsNumber(form.balance)
      [] intent = "update-account" -> CoercePositive(form.id) /\ NameString(form.name)
      [] intent = "update-balance" ->
             /\ CoercePositive(form.id) /\ CoercePositive(form.amount)
             /\ OperationEnum(form.operation)

(* result.data.beforeId ? parseInt(result.data.beforeId) : null *)
NeighborId(raw) == IF raw = "" THEN NULL ELSE NumberOf(raw)

(* return { error } with the VALIDATION_ERROR of handleZodError *)
Rejected(intent, form) ==
    /\ call' = [Frame(intent) EXCEPT !.data = form, !.result = "VALIDATION_ERROR"]
    /\ UNCHANGED <<store, now, schema, procs, hist>>

(* action(): one request.  A form that parses is handed to the data      *)
(* layer, whose frame then tells the outcome.                            *)
Action(intent, form) ==
    IF ~SafeParse(intent, form) THEN Rejected(intent, form)
    ELSE CASE intent = "create-kid" ->
                  CreateKid(form.ledgerId, Trim(form.name), form.emoji)
           [] intent = "update-kid" ->
                  UpdateKid(NumberOf(form.id),
                            [name |-> Trim(form.name), emoji |-> form.emoji])
           [] intent = "delete-kid" -> DeleteKid(NumberOf(form.id))
           [] intent = "reorder-kid" ->
                  ReorderKidBetween(NumberOf(form.id), NeighborId(form.beforeId),
                                    NeighborId(form.afterId))
           [] intent = "create-account" ->
                  CreateAccount(NumberOf(form.kidId), Trim(form.name),
                                NumberOf(form.balance))
           [] intent = "update-account" ->
                  UpdateAccount(NumberOf(form.id), [name |-> Trim(form.name)])
           [] intent = "delete-account" -> DeleteAccount(NumberOf(form.id))
           [] intent = "update-balance" ->
                  UpdateBalance(NumberOf(form.id), NumberOf(form.amount), form.operation)
           [] intent = "reorder-account" ->
                  ReorderAccountBetween(NumberOf(form.id), NeighborId(form.beforeId),
                                        NeighborId(form.afterId))

----------------------------------------------------------------------------
(* SpecAction: requests to the route action, one at a time, on the store *)
(* of InitCalls.  The forms are a form that parses and the forms that    *)
(* differ from it in one field.  An account just created may be read     *)
(* back with getAccount.                                                 *)

Intents ==
    {"create-kid", "update-kid", "delete-kid", "reorder-kid", "create-account",
     "update-account", "delete-account", "update-balance", "reorder-account"}

IdTexts == {Absent, "", "0"} \cup {ToString(i) : i \in 1..MaxSeq}
NameTexts == {Absent, "", " ", "n2"}
EmojiTexts == {Absent, "", "e2"}
LedgerTexts == {Absent, ""} \cup LedgerIds
NeighborTexts == {Absent, "", "1", "2"}
BalanceTexts == {Absent, "", "25"}
AmountTexts == {Absent, "", "0", "-5", "abc", "20"}
OperationTexts == {Absent, "", "sub"} \cup Operations

Variants(form, field, texts) == {[form EXCEPT ![field] = t] : t \in texts}

Forms(intent) ==
    CASE intent = "create-kid" ->
             LET form == [ledgerId |-> "L1", name |-> "n2", emoji |-> "e2"]
             IN  Variants(form, "ledgerId", LedgerTexts) \cup Variants(form, "name", NameTexts)
                     \cup Variants(form, "emoji", EmojiTexts)
      [] intent = "update-kid" ->
             LET form == [id |-> "1", name |-> "n2", emoji |-> "e2"]
             IN  Variants(form, "id", IdTexts) \cup Variants(form, "name", NameTexts)
                     \cup Variants(form, "emoji", EmojiTexts)
      [] intent \in {"delete-kid", "delete-account"} -> {[id |-> t] : t \in IdTexts}
      [] intent \in {"reorder-kid", "reorder-account"} ->
             LET form == [id |-> "1", beforeId |-> "2", afterId |-> ""]
             IN  Variants(form, "id", IdTexts) \cup Variants(form, "beforeId", NeighborTexts)
                     \cup Variants(form, "afterId", NeighborTexts)
      [] intent = "create-account" ->
             LET form == [kidId |-> "1", name |-> "n2", balance |-> "25"]
             IN  Variants(form, "kidId", IdTexts) \cup Variants(form, "name", NameTexts)
                     \cup Variants(form, "balance", BalanceTexts)
      [] intent = "update-account" ->
             LET form == [id |-> "1", name |-> "n2"]
             IN  Variants(form, "id", IdTexts) \cup Variants(form, "name", NameTexts)
      [] intent = "update-balance" ->
             LET form == [id |-> "1", amount |-> "20", operation |-> "add"]
             IN  Variants(form, "id", IdTexts) \cup Variants(form, "amount", AmountTexts)
                     \cup Variants(form, "operation", OperationTexts)

(* the caller of createAccount reads back the account it was given *)
ReadBack ==
    /\ call.op = "createAccount" /\ call.result = "row"
    /\ GetAccount(call.id)

NextAction ==
    \/ /\ call = Idle
       /\ \E intent \in Intents : \E form \in Forms(intent) : Action(intent, form)
    \/ ReadBack
    \/ ReturnLater

SpecAction == InitCalls /\ [][NextAction]_vars

(* the fields the schema of an intent requires *)
RequiredFields(intent) ==
    CASE intent = "create-kid" -> {"ledgerId", "name", "emoji"}
      [] intent = "update-kid" -> {"id", "name", "emoji"}
      [] intent \in {"delete-kid", "delete-account", "reorder-kid", "reorder-account"} -> {"id"}
      [] intent = "create-account" -> {"kidId", "name"}
      [] intent = "update-account" -> {"id", "name"}
      [] intent = "update-balance" -> {"id", "amount", "operation"}

(* a required field is missing or empty; for update-balance, or the      *)
(* amount is no number above zero, or the operation is no known tag      *)
Lacking(intent, form) ==
    \/ \E field \in RequiredFields(intent) : form[field] \in {Absent, ""}
    \/ /\ intent = "update-balance"
       /\ \/ ~(IsNumber(form.amount) /\ NumberOf(form.amount) > 0)
          \/ form.operation \notin {"add", "remove"}

(* C15: a request whose form lacks a required field, and an              *)
(* update-balance whose amount is not strictly positive or whose         *)
(* operation is neither 'add' nor 'remove', is rejected with a           *)
(* validation error and every table is as it was before.                 *)
C15_ValidationFirst ==
    [][\A intent \in Intents : \A form \in Forms(intent) :
           (call = Idle /\ Lacking(intent, form) /\ Action(intent, form))
               => (call'.result = "VALIDATION_ERROR" /\ store' = store)]_vars

(* an update-balance with amount 0 on an account that exists was rejected *)
C15_Witness ==
    /\ call.op = "update-balance" /\ call.result = "VALIDATION_ERROR"
    /\ call.data.amount = "0" /\ call.data.operation \in Operations
    /\ IsNumber(call.data.id) /\ NumberOf(call.data.id) \in DOMAIN accounts


----------------------------------------------------------------------------
(* update-balance on an id that names no account, under SpecCalls *)

(* C16: an update-balance whose account id names no row when the account *)
(* is read ends with the not-found error, and no table has changed: no   *)
(* balance is written and no account row is created.                     *)
C16_NotFound ==
    [][(call = Idle /\ call'.op = "update-balance" /\ call'.id \notin DOMAIN accounts)
           => /\ call'.result = "ACCOUNT_NOT_FOUND"
              /\ store' = store
              /\ hist' = hist]_vars

(* not found: an account that a delete removed, with other accounts left *)
C16_Witness ==
    /\ call.op = "update-balance" /\ call.result = "ACCOUNT_NOT_FOUND"
    /\ call.id <= accountSeq
    /\ accounts # <<>>


----------------------------------------------------------------------------
(* Partial updates, under SpecCalls *)

IsUpdate(f) == f.op \in {"updateLedger", "updateKid", "updateAccount"}

(* the id an update call names *)
UpdateKey(f) == IF f.op = "updateLedger" THEN f.lid ELSE f.id

(* the table an update call works on, out of the three given *)
UpdateTable(f, ls, ks, as) ==
    IF f.op = "updateLedger" THEN ls ELSE IF f.op = "updateKid" THEN ks ELSE as

(* C17: updateLedger, updateKid and updateAccount called with no field   *)
(* write nothing (no field changes, updatedAt included) and return the   *)
(* row as it is, or null when the id names no row.                       *)
C17_EmptyUpdate ==
    [][(call = Idle /\ IsUpdate(call') /\ DOMAIN call'.data = {})
           => LET rows == UpdateTable(call', ledgers, kids, accounts)
                  id   == UpdateKey(call')
              IN  /\ store' = store
                  /\ hist' = hist
                  /\ IF id \in DOMAIN rows
                     THEN call'.result = "row" /\ call'.row = <<rows[id]>>
                     ELSE call'.result = "null" /\ call'.row = <<>>]_vars

(* an update of a kid with no field, later than the row was last written *)
C17_Witness ==
    /\ call.op = "updateKid" /\ DOMAIN call.data = {}
    /\ call.result = "row"
    /\ call.id \in DOMAIN kids /\ kids[call.id].updatedAt < now


(* the row after an update that supplies data at time t: the fields of   *)
(* data take their new values, updatedAt is t, the rest is as it was     *)
Updated(row, data, t) ==
    [fld \in DOMAIN row |->
        IF fld \in DOMAIN data THEN data[fld]
        ELSE IF fld = "updatedAt" THEN t ELSE row[fld]]

(* C18: updateLedger, updateKid and updateAccount with at least one      *)
(* field, on an id that names a row, change the supplied fields of that  *)
(* row and set its updatedAt to the current time; its other fields       *)
(* (sortOrder, the parent id, the balance when only the name is          *)
(* supplied), every other row and every other table are unchanged, and   *)
(* the updated row is returned.  On an id that names no row the call     *)
(* returns null and nothing changes.                                     *)
C18_UpdateFrame ==
    [][(call = Idle /\ IsUpdate(call') /\ DOMAIN call'.data # {})
           => LET rows  == UpdateTable(call', ledgers, kids, accounts)
                  rows2 == UpdateTable(call', ledgers', kids', accounts')
                  id    == UpdateKey(call')
              IN  /\ DOMAIN rows2 = DOMAIN rows
                  /\ \A r \in DOMAIN rows \ {id} : rows2[r] = rows[r]
                  /\ call'.op # "updateLedger" => ledgers' = ledgers
                  /\ call'.op # "updateKid" => kids' = kids
                  /\ call'.op # "updateAccount" => accounts' = accounts
                  /\ <<usedLedgerIds', kidSeq', accountSeq'>> = <<usedLedgerIds, kidSeq, accountSeq>>
                  /\ IF id \in DOMAIN rows
                     THEN /\ \A fld \in DOMAIN rows[id] :
                                 rows2[id][fld] = Updated(rows[id], call'.data, now)[fld]
                          /\ call'.result = "row" /\ call'.row = <<rows2[id]>>
                     ELSE call'.result = "null" /\ call'.row = <<>>]_vars

(* an account renamed, later than it was created, beside another account *)
C18_Witness ==
    /\ call.op = "updateAccount" /\ DOMAIN call.data = {"name"}
    /\ call.result = "row"
    /\ call.id \in DOMAIN accounts
    /\ accounts[call.id].name = call.data.name
    /\ accounts[call.id].updatedAt = now /\ accounts[call.id].createdAt < now
    /\ DOMAIN accounts # {call.id}


----------------------------------------------------------------------------
(* Reorders whose target names no row, under SpecCalls *)

(* C19: reorderKidBetween / reorderAccountBetween on a target id that    *)
(* names no row return null and throw nothing, whatever the neighbor     *)
(* ids are (absent, rows that exist, ids that name no row): no row is    *)
(* written and none is created.                                          *)
C19_TargetResolution ==
    [][(/\ call = Idle
        /\ call'.op \in {"reorderKidBetween", "reorderAccountBetween"}
        /\ call'.id \notin DOMAIN (IF call'.op = "reorderKidBetween" THEN kids ELSE accounts))
           => /\ call'.result = "null"
              /\ store' = store]_vars

(* a reorder of a kid that was deleted, between a row that exists and an *)
(* id that names nothing                                                 *)
C19_Witness ==
    /\ call.op = "reorderKidBetween" /\ call.result = "null"
    /\ call.id \notin DOMAIN kids /\ call.id <= kidSeq
    /\ call.beforeId \in DOMAIN kids
    /\ call.afterId # NULL /\ call.afterId \notin DOMAIN kids


----------------------------------------------------------------------------
(* createAccount and then getAccount, under SpecAction *)

(* C20: getAccount on the id createAccount returned gives a row with the *)
(* kidId, the name and the balance createAccount was called with; a      *)
(* create-account request that carries no balance stores balance 0.      *)
C20_CreateGetRoundTrip ==
    [][/\ (call.op = "createAccount" /\ call.result = "row" /\ call'.op = "getAccount")
           => /\ call'.id = call.id
              /\ call'.result = "row"
              /\ Len(call'.row) = 1
              /\ call'.row[1].kidId = call.kidId
              /\ call'.row[1].name = call.data.name
              /\ call'.row[1].balance = call.balance
       /\ \A form \in Forms("create-account") :
              (/\ call = Idle
               /\ form.balance = Absent
               /\ Action("create-account", form)
               /\ call'.result = "row")
                  => /\ call'.id \in DOMAIN accounts' \ DOMAIN accounts
                     /\ call'.balance = 0
                     /\ accounts'[call'.id].balance = 0]_vars

(* the account created with balance 25 has been read back *)
C20_Witness ==
    /\ call.op = "getAccount" /\ call.result = "row"
    /\ call.id = accountSeq
    /\ call.row[1].balance = 25 /\ call.row[1].name = "n2"

(* the account created by a request without a balance has been read back *)
C20_WitnessOmitted ==
    /\ call.op = "getAccount" /\ call.result = "row"
    /\ call.id = accountSeq
    /\ call.row[1].balance = 0


----------------------------------------------------------------------------
(* Reads, under SpecCalls *)

IsRead(f) == f.op \in {"getLedger", "getKid", "getAccount", "getFullLedger"}

(* the id a read names resolves in the tables given *)
ReadResolves(f, ls, ks, as) ==
    IF f.op \in {"getLedger", "getFullLedger"} THEN f.lid \in DOMAIN ls
    ELSE IF f.op = "getKid" THEN f.id \in DOMAIN ks
    ELSE f.id \in DOMAIN as

(* C21: getLedger, getKid, getAccount and getFullLedger on an id that    *)
(* names no row return null and raise nothing; no such call changes any  *)
(* table, whether or not the id names a row.                            *)
C21_ReadsArePure ==
    [][(call = Idle /\ IsRead(call'))
           => /\ store' = store
              /\ hist' = hist
              /\ call'.result # "throw"
              /\ ReadResolves(call', ledgers, kids, accounts)
                     => call'.result \in {"row", "view"}
              /\ ~ReadResolves(call', ledgers, kids, accounts)
                     => (call'.result = "null" /\ call'.row = <<>> /\ call'.view = <<>>)]_vars

(* getKid on a kid that a delete removed returned null, with kids left *)
C21_Witness ==
    /\ call.op = "getKid" /\ call.result = "null"
    /\ call.id <= kidSeq /\ call.id \notin DOMAIN kids
    /\ kids # <<>>


----------------------------------------------------------------------------
(* SpecCreate: creates and deletes, one call at a time, from an empty    *)
(* database                                                              *)

NextCreate ==
    \/ /\ call = Idle
       /\ \/ CreateLedger("n1")
          \/ \E ledgerId \in LedgerIds : CreateKid(ledgerId, "n1", "e1")
          \/ \E kidId \in KidIdArgs : CreateAccount(kidId, "n1", 0)
          \/ \E id \in LedgerIds : DeleteLedger(id)
          \/ \E id \in KidIdArgs : DeleteKid(id)
          \/ \E id \in AccountIdArgs : DeleteAccount(id)
    \/ Return

SpecCreate == InitCascade /\ [][NextCreate]_vars

(* C22: the ledgers table gains rows only in createLedger, each          *)
(* createLedger adds one row, under an id no ledger has, and leaves the  *)
(* other rows alone; createKid under a ledger id that names no ledger    *)
(* fails, and creates neither a ledger nor a kid.                        *)
C22_NoImplicitLedger ==
    [][/\ DOMAIN ledgers' \ DOMAIN ledgers # {} => call'.op = "createLedger"
       /\ (call = Idle /\ call'.op = "createLedger")
              => /\ call'.lid \notin DOMAIN ledgers
                 /\ DOMAIN ledgers' = DOMAIN ledgers \cup {call'.lid}
                 /\ \A l \in DOMAIN ledgers : ledgers'[l] = ledgers[l]
                 /\ kids' = kids /\ accounts' = accounts
       /\ (call = Idle /\ call'.op = "createKid" /\ call'.lid \notin DOMAIN ledgers)
              => /\ call'.result = "throw"
                 /\ store' = store]_vars

(* createKid failed under the id of a ledger that was deleted, while     *)
(* another ledger exists                                                 *)
C22_Witness ==
    /\ call.op = "createKid" /\ call.result = "throw"
    /\ call.lid \in usedLedgerIds \ DOMAIN ledgers
    /\ ledgers # <<>>


----------------------------------------------------------------------------
(* SpecExhaust: reorders of the accounts of one kid, called one after    *)
(* the other; the frame of a call stays until the next call is made.     *)
(* The kid has four accounts: two neighbors and two to place between    *)
(* them, either of which can be placed again.  An account is moved to   *)
(* the front or between two accounts.                                    *)

InitExhaust ==
    /\ ledgers = LedgersCreated({"L1"})
    /\ usedLedgerIds = {"L1"}
    /\ kids = KidsCreated(1, <<"L1">>)
    /\ kidSeq = 1
    /\ accounts = AccountsCreated(4, <<1, 1, 1, 1>>, 0)
    /\ accountSeq = 4
    /\ hist = NoHistory(accounts)
    /\ now = 0
    /\ schema = Migrated
    /\ call = Idle
    /\ procs = [p \in Procs |-> Idle]

NextExhaust ==
    \/ \E id \in DOMAIN accounts : ReorderAccountBetween(id, NULL, NULL)
    \/ \E id \in DOMAIN accounts, beforeId \in DOMAIN accounts, afterId \in DOMAIN accounts :
           ReorderAccountBetween(id, beforeId, afterId)

SpecExhaust == InitExhaust /\ [][NextExhaust]_vars

(* frame f is a reorder of an account between two other accounts, done *)
PlacedBetween(f) ==
    /\ f.op = "reorderAccountBetween" /\ f.result = "row"
    /\ f.beforeId # NULL /\ f.afterId # NULL
    /\ Cardinality({f.id, f.beforeId, f.afterId}) = 3
    /\ f.beforeKey < f.afterKey

----------------------------------------------------------------------------
(* migrate(db), one step per statement sent to the database *)

(* SELECT MAX(version) as version FROM schema_versions, first(), then *)
(* result?.version ?? 0                                                *)
MaxVersion(versions) ==
    IF versions = <<>> THEN 0
    ELSE Max({versions[i] : i \in DOMAIN versions})

PendingBad(version, currentVersion) == TRUE
(* if (migration.version > currentVersion) *)
Pending(version, currentVersion) == version > currentVersion

(* for (const migration of migrations): the next migration at or after *)
(* position from that the loop runs, one past the end when none is left *)
NextPending(from, currentVersion) ==
    LET S == {i \in DOMAIN Migrations :
                  i >= from /\ Pending(Migrations[i].version, currentVersion)}
    IN  IF S = {} THEN Len(Migrations) + 1
        ELSE CHOOSE i \in S : \A j \in S : i <= j

UniqueVersionBad(versions, version) == TRUE
(* version INTEGER PRIMARY KEY *)
UniqueVersion(versions, version) ==
    \A i \in DOMAIN versions : versions[i] # version

(* The frame after the loop has moved on from position from. *)
Advance(f, from) ==
    LET i == NextPending(from, f.currentVersion)
    IN  IF i > Len(Migrations)
        THEN [f EXCEPT !.pc = "done", !.index = i, !.result = "ok"]
        ELSE [f EXCEPT !.pc = "up", !.index = i]

(* await db.exec(CREATE TABLE IF NOT EXISTS schema_versions ...) *)
MigrateExec(p) ==
    /\ procs[p] = Idle
    /\ schema' = [schema EXCEPT !.tables = @ \cup {"schema_versions"}]
    /\ procs' = [procs EXCEPT ![p] = [Frame("migrate") EXCEPT !.pc = "selectMax"]]
    /\ UNCHANGED <<store, now, call, hist>>

(* const currentVersion = result?.version ?? 0, then the loop up to the *)
(* first migration it runs                                               *)
MigrateSelectMax(p) ==
    LET f == procs[p]
    IN  /\ f.op = "migrate" /\ f.pc = "selectMax"
        /\ procs' = [procs EXCEPT ![p] =
               Advance([f EXCEPT !.currentVersion = MaxVersion(schema.versions)],
                       1)]
        /\ UNCHANGED <<store, schema, now, call, hist>>

(* await migration.up(db) *)
MigrateUp(p) ==
    LET f == procs[p]
    IN  /\ f.op = "migrate" /\ f.pc = "up"
        /\ schema' = [schema EXCEPT
               !.tables = @ \cup Migrations[f.index].creates]
        /\ procs' = [procs EXCEPT ![p] =
               [f EXCEPT !.pc = "insert",
                         !.applied = Append(@, Migrations[f.index].version)]]
        /\ UNCHANGED <<store, now, call, hist>>

(* INSERT INTO schema_versions (version, name) VALUES (?, ?); a second row *)
(* of one version violates the primary key, run() rejects and migrate      *)
(* rethrows                                                                *)
MigrateInsert(p) ==
    LET f       == procs[p]
        version == Migrations[f.index].version
    IN  /\ f.op = "migrate" /\ f.pc = "insert"
        /\ IF UniqueVersion(schema.versions, version)
           THEN /\ schema' = [schema EXCEPT !.versions = Append(@, version)]
                /\ procs' = [procs EXCEPT ![p] = Advance(f, f.index + 1)]
           ELSE /\ procs' = [procs EXCEPT ![p] =
                       [f EXCEPT !.pc = "done", !.result = "throw"]]
                /\ UNCHANGED schema
        /\ UNCHANGED <<store, now, call, hist>>

(* A statement of migrate rejects for a reason of the database service: *)
(* catch (error) { console.error(...); throw error }                     *)
MigrateThrow(p) ==
    LET f == procs[p]
    IN  /\ f.op = "migrate" /\ f.pc \in {"selectMax", "up", "insert"}
        /\ procs' = [procs EXCEPT ![p] =
               [f EXCEPT !.pc = "done", !.result = "error"]]
        /\ UNCHANGED <<store, schema, now, call, hist>>

----------------------------------------------------------------------------
(* SpecMigrate: requests on a fresh database, one at a time.  A request  *)
(* is DB.getInstance(env), which awaits migrate(), and when that returns *)
(* a call of the handler on the instance (here createLedger); migrate    *)
(* may end early on an error of the database service                     *)

InitMigrate ==
    /\ ledgers = <<>>
    /\ usedLedgerIds = {}
    /\ kids = <<>>
    /\ kidSeq = 0
    /\ accounts = <<>>
    /\ accountSeq = 0
    /\ hist = <<>>
    /\ now = 0
    /\ schema = Fresh
    /\ call = Idle
    /\ procs = [p \in Procs |-> Idle]

NextMigrate ==
    \E p \in Procs :
        /\ \A q \in Procs \ {p} : procs[q] = Idle
        /\ \/ MigrateExec(p)
           \/ MigrateSelectMax(p)
           \/ MigrateUp(p)
           \/ MigrateInsert(p)
           \/ MigrateThrow(p)
           \/ /\ procs[p].op = "migrate" /\ procs[p].result = "ok"
              /\ call = Idle
              /\ CreateLedger("n1")
           \/ Return
           \/ /\ call = Idle
              /\ ProcReturn(p)

SpecMigrate == InitMigrate /\ [][NextMigrate]_vars

(* The versions of schema_versions are those of the migrations, one row each. *)
RecordedOnce(versions) ==
    /\ Len(versions) = Len(Migrations)
    /\ \A i \in DOMAIN Migrations :
           \E j \in DOMAIN versions : versions[j] = Migrations[i].version

Ascending(seq) == \A i, j \in DOMAIN seq : i < j => seq[i] < seq[j]

(* C24: with one migrate() at a time, a call that returns leaves every    *)
(* migration version recorded exactly once; the migrations a call applies *)
(* are in ascending version order and all above the maximum it read, and  *)
(* a call that returns has applied every such version; a step of migrate  *)
(* on a database with every version recorded leaves the database as it is *)
(* and has applied nothing.                                               *)
C24_MigrateOnce ==
    [][\A p \in Procs :
          LET f == procs'[p]
          IN  (f.op = "migrate" /\ f # procs[p]) =>
                  /\ Ascending(f.applied)
                  /\ \A i \in DOMAIN f.applied : f.applied[i] > f.currentVersion
                  /\ f.result = "ok" =>
                         /\ RecordedOnce(schema'.versions)
                         /\ Ascending(schema'.versions)
                         /\ {f.applied[i] : i \in DOMAIN f.applied}
                                = {Migrations[i].version : i \in
                                      {j \in DOMAIN Migrations :
                                          Migrations[j].version > f.currentVersion}}
                  /\ schema = Migrated =>
                         (schema' = schema /\ f.applied = <<>>)]_vars

(* A migrate() that found every version recorded has returned, after an *)
(* earlier call recorded them on the fresh database.                     *)
C24_Witness ==
    \E p \in Procs :
        /\ procs[p].op = "migrate" /\ procs[p].result = "ok"
        /\ procs[p].currentVersion = Len(Migrations)
        /\ procs[p].applied = <<>>
        /\ schema = Migrated

----------------------------------------------------------------------------
(* SpecMigrateConc: two requests on a fresh database whose statements     *)
(* interleave; each is DB.getInstance(env), which awaits migrate(), and   *)
(* when that returns a call of the handler on the instance.  No statement *)
(* is rejected by the database service for a reason of its own.           *)

NextMigrateConc ==
    \E p \in Procs :
        \/ MigrateExec(p)
        \/ MigrateSelectMax(p)
        \/ MigrateUp(p)
        \/ MigrateInsert(p)
        \/ /\ procs[p].op = "migrate" /\ procs[p].result = "ok"
           /\ call = Idle
           /\ CreateLedger("n1")
        \/ Return
        \/ /\ call = Idle
           /\ ProcReturn(p)

SpecMigrateConc == InitMigrate /\ [][NextMigrateConc]_vars

(* C29: no migrate() of two concurrent requests raises an error, and once *)
(* a call has returned every version is recorded exactly once.            *)
C29_ConcurrentMigrate ==
    \A p \in Procs :
        procs[p].op = "migrate" =>
            /\ procs[p].result # "throw"
            /\ procs[p].result = "ok" => RecordedOnce(schema.versions)

----------------------------------------------------------------------------
(* C25: a createKid (createAccount) call that inserts a row gives it the *)
(* largest key among the rows already under the same ledger (kid) plus   *)
(* 1, or 1 when there is none, so the rows of one parent never share a   *)
(* key.                                                                   *)
C25_CreateAppends ==
    [][/\ \A ledgerId \in LedgerIds :
              LET keys == KidKeys(kids, ledgerId)
              IN  (call = Idle /\ References(ledgers, ledgerId)
                      /\ CreateKid(ledgerId, "n1", "e1")) =>
                      kids'[kidSeq'].sortOrder
                          = IF keys = {} THEN Unit ELSE Max(keys) + Unit
       /\ \A kidId \in KidIdArgs :
              LET keys == AccountKeys(accounts, kidId)
              IN  (call = Idle /\ References(kids, kidId)
                      /\ CreateAccount(kidId, "n1", 0)) =>
                      accounts'[accountSeq'].sortOrder
                          = IF keys = {} THEN Unit ELSE Max(keys) + Unit]_vars

----------------------------------------------------------------------------
(* SpecCreateConc: createKid and createAccount calls of two requests, *)
(* interleaved, on a ledger that has one kid with one account           *)

InitCreateConc ==
    /\ ledgers = LedgersCreated({"L1"})
    /\ usedLedgerIds = {"L1"}
    /\ kids = KidsCreated(1, <<"L1">>)
    /\ kidSeq = 1
    /\ accounts = AccountsCreated(1, <<1>>, 0)
    /\ accountSeq = 1
    /\ hist = NoHistory(accounts)
    /\ now = 0
    /\ schema = Migrated
    /\ call = Idle
    /\ procs = [p \in Procs |-> Idle]

NextCreateConc ==
    \/ \E p \in Procs : CreateKidSelectMax(p, "L1", "n1", "e1")
    \/ \E p \in Procs : CreateKidInsertUpTo(p, MaxSeq)
    \/ \E p \in Procs, kidId \in DOMAIN kids :
           CreateAccountSelectMax(p, kidId, "n1", 0)
    \/ \E p \in Procs : CreateAccountInsertUpTo(p, MaxSeq)

SpecCreateConc == InitCreateConc /\ [][NextCreateConc]_vars

(* C30: when a createKid (createAccount) call inserts its row while another *)
(* call for the same ledger (kid) has read MAX(sort_order) and not yet      *)
(* inserted, the two calls carry different keys, and the key inserted is    *)
(* larger than the key of every row already under that ledger (kid).       *)
C30_ConcurrentCreates ==
    [][\A p, q \in Procs :
          /\ (p # q /\ procs[q].op = "createKid"
                 /\ procs[q].lid = procs[p].lid
                 /\ CreateKidInsertUpTo(p, MaxSeq)) =>
                 /\ procs[p].newSortOrder # procs[q].newSortOrder
                 /\ \A k \in KidKeys(kids, procs[p].lid) :
                        procs[p].newSortOrder > k
          /\ (p # q /\ procs[q].op = "createAccount"
                 /\ procs[q].kidId = procs[p].kidId
                 /\ CreateAccountInsertUpTo(p, MaxSeq)) =>
                 /\ procs[p].newSortOrder # procs[q].newSortOrder
                 /\ \A k \in AccountKeys(accounts, procs[p].kidId) :
                        procs[p].newSortOrder > k]_vars

----------------------------------------------------------------------------
(* C26: whenever the write step of an update-balance intent ends with    *)
(* success, the account row exists when the UPDATE runs and holds the    *)
(* computed balance afterwards; an intent whose account was deleted      *)
(* between its read and its write does not report success.               *)
C26_SuccessImpliesWrite ==
    [][\A p \in Procs :
          (UpdateBalanceWrite(p) /\ procs'[p].result = "success") =>
              /\ procs[p].id \in DOMAIN accounts
              /\ procs[p].id \in DOMAIN accounts'
              /\ accounts'[procs[p].id].balance
                     = NewBalance(procs[p].balance, procs[p].amount,
                                  procs[p].operation)]_vars

----------------------------------------------------------------------------
(* SpecReorderConc: reorderKidBetween calls of two requests, interleaved   *)
(* one getKid / UPDATE at a time, on a ledger with four kids: kid 1 was    *)
(* moved to the front after the creates.  Kids 3 and 4 are placed between  *)
(* kids 1 and 2, kid 2 is moved to the front, kid 1 is moved behind kid 2. *)

InitReorderConc ==
    /\ ledgers = LedgersCreated({"L1"})
    /\ usedLedgerIds = {"L1"}
    /\ kids = UpdateSortOrder(KidsCreated(4, <<"L1", "L1", "L1", "L1">>), 1,
                              KeyFront, 0)
    /\ kidSeq = 4
    /\ accounts = <<>>
    /\ accountSeq = 0
    /\ hist = <<>>
    /\ now = 0
    /\ schema = Migrated
    /\ call = Idle
    /\ procs = [p \in Procs |-> Idle]

NextReorderConc ==
    \E p \in Procs :
        \/ \E id \in {3, 4} : ReorderKidStart(p, id, 1, 2)
        \/ ReorderKidStart(p, 2, NULL, NULL)
        \/ ReorderKidStart(p, 1, 2, NULL)
        \/ ReorderKidRead(p)
        \/ ReorderKidUpdate(p)

SpecReorderConc == InitReorderConc /\ [][NextReorderConc]_vars

(* C27: when a reorderKidBetween(X, A, B) call whose key lay strictly      *)
(* between the keys it read for A and B writes that key, the key lies      *)
(* strictly between the keys A and B hold at that moment, and it differs   *)
(* from the key another call in flight has computed for a different kid    *)
(* between the same A and B.                                               *)
C27_ReorderInterleaved ==
    [][\A p \in Procs :
          LET f == procs[p]
          IN  (/\ ReorderKidUpdate(p)
               /\ f.beforeId # NULL /\ f.afterId # NULL
               /\ f.beforeKey < f.newSortOrder
               /\ f.newSortOrder < f.afterKey) =>
                  /\ kids[f.beforeId].sortOrder < f.newSortOrder
                  /\ f.newSortOrder < kids[f.afterId].sortOrder
                  /\ \A q \in Procs \ {p} :
                         (/\ procs[q].op = f.op /\ procs[q].pc = "update"
                          /\ procs[q].beforeId = f.beforeId
                          /\ procs[q].afterId = f.afterId
                          /\ procs[q].id # f.id) =>
                             procs[q].newSortOrder # f.newSortOrder]_vars

----------------------------------------------------------------------------
(* SpecDeleteConc: deletes of kids and accounts while reorderKidBetween,  *)
(* update-balance (whose write is updateAccount) and create calls of two *)
(* requests are in flight, on a ledger that has one kid with one account *)

NextDeleteConc ==
    \/ \E id \in DOMAIN kids : Single(DeleteFromKids(id))
    \/ \E id \in DOMAIN accounts : Single(DeleteFromAccounts(id))
    \/ \E p \in Procs : CreateKidSelectMax(p, "L1", "n1", "e1")
    \/ \E p \in Procs : CreateKidInsertUpTo(p, MaxIssued)
    \/ \E p \in Procs, kidId \in DOMAIN kids :
           CreateAccountSelectMax(p, kidId, "n1", 0)
    \/ \E p \in Procs : CreateAccountInsertUpTo(p, MaxIssued)
    \/ \E p \in Procs, id \in DOMAIN kids : ReorderKidStart(p, id, NULL, NULL)
    \/ \E p \in Procs : ReorderKidRead(p)
    \/ \E p \in Procs : ReorderKidUpdate(p)
    \/ \E p \in Procs, id \in DOMAIN accounts : UpdateBalanceRead(p, id, 20, "add")
    \/ \E p \in Procs : UpdateBalanceWrite(p)
    \/ \E p \in Procs : ProcReturn(p)

SpecDeleteConc == InitCreateConc /\ [][NextDeleteConc]_vars

(* C28: every id in a table was issued by its AUTOINCREMENT sequence, and *)
(* a step adds a row to kids (accounts) only under an id above every id   *)
(* issued so far: an id that was issued and is absent, that is a deleted  *)
(* row's id, stays absent whatever update, reorder or update-balance was  *)
(* in flight, and no created row receives it.                             *)
C28_NoResurrection ==
    [][/\ \A id \in DOMAIN kids' : id <= kidSeq'
       /\ \A id \in DOMAIN accounts' : id <= accountSeq'
       /\ \A id \in DOMAIN kids' \ DOMAIN kids : id > kidSeq
       /\ \A id \in DOMAIN accounts' \ DOMAIN accounts : id > accountSeq]_vars

(* Kid 1 and account 1 are deleted, a kid and an account created later  *)
(* exist, and calls that read the deleted rows have their writes still  *)
(* to run: a reorder of kid 1 and an update-balance of account 1.       *)
C28_Witness ==
    /\ 1 \notin DOMAIN kids /\ 1 \notin DOMAIN accounts
    /\ DOMAIN kids # {} /\ DOMAIN accounts # {}
    /\ \E p, q \in Procs :
           /\ procs[p].op = "reorderKidBetween" /\ procs[p].pc = "update"
           /\ procs[p].id = 1
           /\ procs[q].op = "update-balance" /\ procs[q].pc = "updateAccount"
           /\ procs[q].id = 1

====
